---- MODULE Spec2Model ----
(***************************************************************************)
(* Ldpj_backend: the per-cabin cycle FSM (core/cycle_fsm.py), the polling  *)
(* engine's ring buffer (core/polling_engine.py) and the processing loop   *)
(* (pipeline/processing_loop.py).                                          *)
(*                                                                         *)
(* Pressures and timestamps are floats in the program; they are modelled   *)
(* as small integers.  Optional[float] is a sequence of length 0 (None) or *)
(* 1.                                                                      *)
(***************************************************************************)
EXTENDS Integers, Sequences, FiniteSets, TLC

\* ------------------------------------------------------------- bounds
\* Cabins are 0 .. NumCabins-1.
NumCabins == 2
\* Pressures are 0 .. MaxPressure.
MaxPressure == 2
\* Timestamps are 1 .. MaxTs (time.time() is positive).
MaxTs == 3
\* The polling worker makes at most MaxPolls reads.
MaxPolls == 3
\* polling.buffer_size (default 10000), scaled down.
BufferSize == 2
\* At most MaxFaultCalls calls are made on the FaultReporter.
MaxFaultCalls == 5
\* Each thread runs the health checks at most MaxRuns times.
MaxRuns == 2
\* The worker stops reading after MaxErrors failed reads.
MaxErrors == 2
\* At most MaxWrites calls of db_write are made.
MaxWrites == 2
\* PollingEngine.start is called at most MaxStarts times.
MaxStarts == 2
\* log_record is called at most MaxLogCalls times.
MaxLogCalls == 3

Cabins == 0 .. (NumCabins - 1)
Pressures == 0 .. MaxPressure
Timestamps == 1 .. MaxTs

\* The instance the unit-level specification SpecFSM drives.
FsmUnderTest == {CHOOSE c \in Cabins : \A d \in Cabins : c <= d}

\* The remaining CabinFrame fields carry no control flow; one value each.
AiValues == {100}
PositionValues == {90}
AngleValues == {45}

\* cycle_detection configurations (scaled-down thresholds).
CycleConfigs ==
    { [start_pressure_drop |-> 2, end_pressure_rise |-> 1,
       min_collection_points |-> mn, max_collection_points |-> 3,
       max_collection_duration_s |-> d[1], collection_timeout_s |-> d[2]]
      : mn \in {2, 3}, d \in {<<2, 3>>, <<2, 1>>, <<0, 1>>} }

VARIABLES
    cfg,        \* CabinFSM thresholds (the cycle_detection section)
    fsm,        \* CycleFSMManager.fsms: cabin -> CabinFSM fields
    call,       \* the last call made on an FSM: [op, frame, result]
    buffer,     \* PollingEngine._buffer: deque(maxlen = buffer_size) of PollFrame
    lock,       \* PollingEngine._lock: "free" or its holder
    poll_pc,    \* the polling worker's position in _poll_loop
    poll_frame, \* the frame the worker parsed and has not appended yet
    polls,      \* _stats["total_polls"]
    drain_pc,   \* position of the thread inside drain_frames_since
    drain_since,\* its argument since_ts
    drain_i,    \* index of the comprehension's iterator into the deque
    drain_out,  \* the list built so far
    drain_seen, \* the deque as it was when the call took the lock
    loop_pc,    \* the processing loop's position in run_once
    last_poll_ts, \* ProcessingLoop._last_poll_ts, the drain watermark
    frames,     \* _feed_fsm: the drained frames not yet fed
    ready,      \* run_once: the PROCESSING cabins not yet processed
    faulted,    \* run_once: the FAULT cabins not yet handled
    model_loaded, \* SupervisedXGB.loaded
    db,         \* the rows of test_records
    plc_result, \* the write-back word at (wb_db, wb_offset), once written
    leak_alarms,\* leak alarms handed to the dispatcher
    reporter,   \* FaultReporter: [active_faults, history, notified]
    last_inference_ms, \* HealthChecker._last_inference_ms
    events,     \* history: what this iteration did, in order
    found,      \* history: the cabins this iteration found in PROCESSING
    result,     \* history: the inference result of each cabin this iteration
    fed,        \* history: how often each frame (by seq) was passed to the FSMs
    fed_ts,     \* history: timestamp of the last frame passed to each FSM
    since_drain,\* history: frames appended since the last drain began
    overrun,    \* history: some drain began with >= capacity frames appended since the one before
    conn,       \* S7Connection: [connected]
    engine,     \* PollingEngine: [running, thread] (_running, _thread)
    worker_pc,  \* the polling worker's position in _poll_loop on the real transport
    stats,      \* _stats["errors"] and _stats["reconnects"]
    writer_pc,  \* the position of a thread inside S7Connection.db_write
    io_log,     \* history: the last transport call and what the worker did since
    caller,     \* threads inside raise_fault / resolve_fault: thread -> [pc, code]
    rep_log,    \* history: the calls made on the FaultReporter
    checker,    \* threads inside run_all_checks: thread -> [state, pc, op, report, seen, runs]
    life,       \* the callers of stop(), the health worker, and a polling worker that
                \* self._thread no longer names: [pstop, hc, hstop, old]
    store,      \* DatabaseLogger: its lock, the table, and the threads inside it
    shut,       \* the threads inside _shutdown and the calls they have made
    ctl,        \* ProcessingLoop._paused, and history: [paused, idled, resumed]
    sender,     \* a call of ResultSender.write_result: its arguments and its writes
    pusher,     \* AlarmPusher: its targets, a push_alarm call and its alarm-push thread
    cbs         \* _on_fault_callbacks, and history: what the last raise_fault call did

fsmVars == <<cfg, fsm, call>>
pollVars == <<buffer, poll_pc, poll_frame, polls>>
drainVars == <<drain_pc, drain_since, drain_i, drain_out, drain_seen>>
loopVars == <<loop_pc, last_poll_ts, frames, ready, faulted>>
partVars == <<model_loaded, db, plc_result, leak_alarms, reporter, last_inference_ms>>
histVars == <<events, found, result, fed, fed_ts, since_drain, overrun>>
pipeVars == <<loopVars, partVars, histVars>>
nonFsmVars == <<pollVars, lock, drainVars, pipeVars>>
transportVars == <<conn, engine, worker_pc, stats, writer_pc, io_log>>
auxVars == <<ctl, sender, pusher, cbs>>
lifeVars == <<life, store, shut, auxVars>>
extVars == <<transportVars, caller, rep_log, checker, lifeVars>>
vars == <<fsmVars, nonFsmVars, extVars>>

\* ------------------------------------------------------------- frames
CabinFrame(i, ai, p, pos, ang, ts) ==
    [cabin_index |-> i, rt_ai |-> ai, rt_pressure |-> p,
     rt_position |-> pos, rt_angle |-> ang, timestamp |-> ts]

CabinFrames(i) ==
    { CabinFrame(i, ai, p, pos, ang, ts) :
        ai \in AiValues, p \in Pressures, pos \in PositionValues,
        ang \in AngleValues, ts \in Timestamps }

\* One cabin's 12 bytes in DB9, by field.
RawChunk(ai, p, pos, ang) ==
    [rt_ai |-> ai, rt_pressure |-> p, rt_position |-> pos, rt_angle |-> ang]

\* db_read results: cabin_count whole chunks, pressures drawn from ps.
RawReads(ps) ==
    [1 .. NumCabins ->
        { RawChunk(ai, p, pos, ang) :
            ai \in AiValues, p \in ps, pos \in PositionValues, ang \in AngleValues }]

Min(a, b) == IF a <= b THEN a ELSE b

\* seq numbers the frames in parse order; it is not a field of the program.
_parse_frame(raw, ts, n) ==
    [timestamp |-> ts,
     cabins |-> [i \in 1 .. Min(Len(raw), NumCabins) |->
                   CabinFrame(i - 1, raw[i].rt_ai, raw[i].rt_pressure,
                              raw[i].rt_position, raw[i].rt_angle, ts)],
     seq |-> n]

\* ------------------------------------------------------------- ring buffer
\* Mutant: a full deque drops the new frame instead of the oldest.
deque_append_drop_new(buf, x, maxlen) ==
    IF Len(buf) < maxlen THEN Append(buf, x) ELSE buf

\* deque(maxlen).append
deque_append(buf, x, maxlen) ==
    IF maxlen = 0 THEN <<>>
    ELSE IF Len(buf) >= maxlen THEN Append(Tail(buf), x)
    ELSE Append(buf, x)

\* Mutant: frames stamped exactly since_ts are returned too.
drain_keeps_or_equal(f, since_ts) == f.timestamp >= since_ts

\* Mutant: the drain returns every frame of the buffer.
drain_keeps_all(f, since_ts) == TRUE

\* The comprehension's filter in drain_frames_since.
drain_keeps(f, since_ts) == f.timestamp > since_ts

\* ------------------------------------------------------------- alarm pusher
\* The alarm_pusher section of ipc.yaml, with leak pushes switched on.
AlarmCfg == [enabled |-> TRUE, push_on_leak |-> TRUE, min_level |-> "ERROR"]
LevelOrder == [INFO |-> 0, WARNING |-> 1, ERROR |-> 2, CRITICAL |-> 3]

should_push(level) == LevelOrder[level] >= LevelOrder[AlarmCfg.min_level]

\* AlarmPusher.push_leak_alarm: the number of dispatches after the call.
push_leak_alarm(n) ==
    IF AlarmCfg.push_on_leak /\ AlarmCfg.enabled /\ should_push("ERROR")
    THEN n + 1 ELSE n

\* ------------------------------------------------------------- FaultReporter
\* health/fault_codes.py: the registry, in registration order.
FaultOrder == <<"F001", "F002", "F003", "F004", "F005",
                "F006", "F007", "F008", "F009", "F010">>

FAULT_CODES ==
    [F001 |-> [plc_value |-> 1, level |-> "CRITICAL"],
     F002 |-> [plc_value |-> 2, level |-> "CRITICAL"],
     F003 |-> [plc_value |-> 3, level |-> "ERROR"],
     F004 |-> [plc_value |-> 4, level |-> "WARNING"],
     F005 |-> [plc_value |-> 5, level |-> "ERROR"],
     F006 |-> [plc_value |-> 6, level |-> "ERROR"],
     F007 |-> [plc_value |-> 7, level |-> "WARNING"],
     F008 |-> [plc_value |-> 8, level |-> "ERROR"],
     F009 |-> [plc_value |-> 9, level |-> "WARNING"],
     F010 |-> [plc_value |-> 10, level |-> "WARNING"]]

_level_priority(level) == LevelOrder[level]

\* main registers one callback (the alarm pusher) when alarm_pusher.enabled.
Callbacks == IF AlarmCfg.enabled THEN <<"push_alarm">> ELSE <<>>

\* The codes the reporter is exercised with: two of one level, one of another.
FaultCodesUnderTest == {"F001", "F002", "F004"}

\* FaultReporter(): _active_faults is a dict, kept here as the sequence of its
\* events in insertion order; _history is the list of events ever activated;
\* notified counts the callback invocations.  An event is the FaultEvent's
\* code, whether its timestamp was refreshed by a later raise, and .resolved.
NewFaultReporter == [active_faults |-> <<>>, history |-> <<>>, notified |-> 0]

FaultEvent(code) == [code |-> code, refreshed |-> FALSE, resolved |-> FALSE]

ActiveCodes(r) == { r.active_faults[i].code : i \in 1 .. Len(r.active_faults) }

\* Index of the last event of this code in a list of events (0 if none).
LastIndexOf(evs, code) ==
    IF \E i \in 1 .. Len(evs) : evs[i].code = code
    THEN CHOOSE i \in 1 .. Len(evs) :
            /\ evs[i].code = code
            /\ \A j \in (i + 1) .. Len(evs) : evs[j].code # code
    ELSE 0

\* Mutant: every raise records and notifies, active or not.
raise_fault_always_new(r, code) ==
    [active_faults |->
        Append(SelectSeq(r.active_faults, LAMBDA e : e.code # code), FaultEvent(code)),
     history |-> Append(r.history, FaultEvent(code)),
     notified |-> r.notified + Len(Callbacks)]

\* FaultReporter.raise_fault.
raise_fault(r, code) ==
    IF code \notin ActiveCodes(r)
    THEN [active_faults |-> Append(r.active_faults, FaultEvent(code)),
          history |-> Append(r.history, FaultEvent(code)),
          notified |-> r.notified + Len(Callbacks)]
    ELSE [r EXCEPT !.active_faults =
                      [i \in 1 .. Len(@) |->
                          IF @[i].code = code THEN [@[i] EXCEPT !.refreshed = TRUE]
                          ELSE @[i]],
                   !.history =
                      [i \in 1 .. Len(@) |->
                          IF i = LastIndexOf(r.history, code)
                          THEN [@[i] EXCEPT !.refreshed = TRUE] ELSE @[i]]]

\* FaultReporter.resolve_fault: the event (shared with _history) is marked
\* resolved and removed from the dict.
resolve_fault(r, code) ==
    IF code \in ActiveCodes(r)
    THEN [r EXCEPT !.active_faults = SelectSeq(@, LAMBDA e : e.code # code),
                   !.history = [i \in 1 .. Len(@) |->
                                  IF i = LastIndexOf(r.history, code)
                                  THEN [@[i] EXCEPT !.resolved = TRUE] ELSE @[i]]]
    ELSE r

\* The first event of maximal _level_priority, as max() over the dict's
\* values returns it.
get_highest_plc_value(r) ==
    IF r.active_faults = <<>> THEN 0
    ELSE LET a == r.active_faults
             worst == CHOOSE i \in 1 .. Len(a) :
                        /\ \A j \in 1 .. Len(a) :
                              _level_priority(FAULT_CODES[a[j].code].level)
                                <= _level_priority(FAULT_CODES[a[i].code].level)
                        /\ \A j \in 1 .. (i - 1) :
                              _level_priority(FAULT_CODES[a[j].code].level)
                                < _level_priority(FAULT_CODES[a[i].code].level)
         IN  FAULT_CODES[a[worst].code].plc_value

\* ------------------------------------------------------------- CabinFSM
CycleData(start) ==
    [pressures |-> <<>>, angles |-> <<>>, timestamps |-> <<>>,
     ai_values |-> <<>>, positions |-> <<>>, start_time |-> start]

NewCabinFSM ==
    [state |-> "IDLE", data |-> CycleData(0), last_pressure |-> <<>>]

point_count(f) == Len(f.data.pressures)

\* Mutant: the angle is not recorded.
_append_no_angle(d, frame) ==
    [d EXCEPT !.pressures = Append(@, frame.rt_pressure),
              !.timestamps = Append(@, frame.timestamp),
              !.ai_values = Append(@, frame.rt_ai),
              !.positions = Append(@, frame.rt_position)]

_append(d, frame) ==
    [d EXCEPT !.pressures = Append(@, frame.rt_pressure),
              !.angles = Append(@, frame.rt_angle),
              !.timestamps = Append(@, frame.timestamp),
              !.ai_values = Append(@, frame.rt_ai),
              !.positions = Append(@, frame.rt_position)]

_transition_to_processing(f) == [f EXCEPT !.state = "PROCESSING"]

\* Mutant: the drop must exceed the threshold strictly.
_handle_idle_strict(f, pressure, ts, frame) ==
    IF f.last_pressure # <<>> /\ f.last_pressure[1] - pressure > cfg.start_pressure_drop
    THEN [f EXCEPT !.state = "COLLECTING",
                   !.data = _append(CycleData(ts), frame)]
    ELSE f

_handle_idle(f, pressure, ts, frame) ==
    IF f.last_pressure # <<>> /\ f.last_pressure[1] - pressure >= cfg.start_pressure_drop
    THEN [f EXCEPT !.state = "COLLECTING",
                   !.data = _append(CycleData(ts), frame)]
    ELSE f

\* Mutant: a pressure rise ends the cycle whatever the number of points.
_handle_collecting_no_min(f, pressure, ts, frame) ==
    LET g == [f EXCEPT !.data = _append(@, frame)]
        elapsed == ts - g.data.start_time
    IN  IF /\ f.last_pressure # <<>>
           /\ pressure - f.last_pressure[1] >= cfg.end_pressure_rise
        THEN _transition_to_processing(g)
        ELSE IF Len(g.data.pressures) >= cfg.max_collection_points
        THEN _transition_to_processing(g)
        ELSE IF elapsed >= cfg.max_collection_duration_s
        THEN _transition_to_processing(g)
        ELSE IF elapsed >= cfg.collection_timeout_s
        THEN [g EXCEPT !.state = "FAULT"]
        ELSE g

\* Mutant: the timeout is checked before the maximum duration.
_handle_collecting_timeout_first(f, pressure, ts, frame) ==
    LET g == [f EXCEPT !.data = _append(@, frame)]
        elapsed == ts - g.data.start_time
    IN  IF /\ f.last_pressure # <<>>
           /\ Len(g.data.pressures) >= cfg.min_collection_points
           /\ pressure - f.last_pressure[1] >= cfg.end_pressure_rise
        THEN _transition_to_processing(g)
        ELSE IF Len(g.data.pressures) >= cfg.max_collection_points
        THEN _transition_to_processing(g)
        ELSE IF elapsed >= cfg.collection_timeout_s
        THEN [g EXCEPT !.state = "FAULT"]
        ELSE IF elapsed >= cfg.max_collection_duration_s
        THEN _transition_to_processing(g)
        ELSE g

\* Mutant: the end conditions are checked on the points held before the frame.
_handle_collecting_no_append(f, pressure, ts, frame) ==
    LET g == f
        elapsed == ts - g.data.start_time
    IN  IF /\ f.last_pressure # <<>>
           /\ Len(g.data.pressures) >= cfg.min_collection_points
           /\ pressure - f.last_pressure[1] >= cfg.end_pressure_rise
        THEN _transition_to_processing(g)
        ELSE IF Len(g.data.pressures) >= cfg.max_collection_points
        THEN _transition_to_processing(g)
        ELSE IF elapsed >= cfg.max_collection_duration_s
        THEN _transition_to_processing(g)
        ELSE IF elapsed >= cfg.collection_timeout_s
        THEN [g EXCEPT !.state = "FAULT"]
        ELSE [g EXCEPT !.data = _append(@, frame)]

_handle_collecting(f, pressure, ts, frame) ==
    LET g == [f EXCEPT !.data = _append(@, frame)]
        elapsed == ts - g.data.start_time
    IN  IF /\ f.last_pressure # <<>>
           /\ Len(g.data.pressures) >= cfg.min_collection_points
           /\ pressure - f.last_pressure[1] >= cfg.end_pressure_rise
        THEN _transition_to_processing(g)
        ELSE IF Len(g.data.pressures) >= cfg.max_collection_points
        THEN _transition_to_processing(g)
        ELSE IF elapsed >= cfg.max_collection_duration_s
        THEN _transition_to_processing(g)
        ELSE IF elapsed >= cfg.collection_timeout_s
        THEN [g EXCEPT !.state = "FAULT"]
        ELSE g

\* Mutant: a frame is handled in PROCESSING as it is in COLLECTING.
update_collects_in_processing(f, frame) ==
    LET pressure == frame.rt_pressure
        ts == frame.timestamp
        g == IF f.state = "IDLE" THEN _handle_idle(f, pressure, ts, frame)
             ELSE IF f.state \in {"COLLECTING", "PROCESSING"}
             THEN _handle_collecting(f, pressure, ts, frame)
             ELSE f
    IN  [g EXCEPT !.last_pressure = <<pressure>>]

update(f, frame) ==
    LET pressure == frame.rt_pressure
        ts == frame.timestamp
        g == IF f.state = "IDLE" THEN _handle_idle(f, pressure, ts, frame)
             ELSE IF f.state = "COLLECTING" THEN _handle_collecting(f, pressure, ts, frame)
             ELSE f
    IN  [g EXCEPT !.last_pressure = <<pressure>>]

harvest(f) == f.data

\* Mutant: reset keeps the collected data.
reset_keeps_data(f) == [f EXCEPT !.state = "IDLE", !.last_pressure = <<>>]

\* Mutant: reset keeps the last-pressure baseline.
reset_keeps_baseline(f) ==
    [state |-> "IDLE", data |-> CycleData(0), last_pressure |-> f.last_pressure]

reset(f) == [state |-> "IDLE", data |-> CycleData(0), last_pressure |-> <<>>]

force_fault(f) == [f EXCEPT !.state = "FAULT"]

\* Mutant: clear_fault only changes the state.
clear_fault_keeps_data(f) == [f EXCEPT !.state = "IDLE"]

clear_fault(f) == [state |-> "IDLE", data |-> CycleData(0), last_pressure |-> <<>>]

\* ------------------------------------------------------------- initial state
NoCall == [op |-> "none", frame |-> <<>>, result |-> <<>>]

InitFSMs(configs) ==
    /\ cfg \in configs
    /\ fsm = [c \in Cabins |-> NewCabinFSM]
    /\ call = NoCall

InitEngine ==
    /\ buffer = <<>>
    /\ lock = "free"
    /\ poll_pc = "read"
    /\ poll_frame = <<>>
    /\ polls = 0
    /\ drain_pc = "idle"
    /\ drain_since = 0
    /\ drain_i = 0
    /\ drain_out = <<>>
    /\ drain_seen = <<>>

InitParts(loaded) ==
    /\ model_loaded \in loaded
    /\ db = <<>>
    /\ plc_result = <<>>
    /\ leak_alarms = 0
    /\ reporter = IF model_loaded THEN NewFaultReporter
                  ELSE raise_fault(NewFaultReporter, "F002")
    /\ last_inference_ms = 0

InitLoop ==
    /\ loop_pc = "start"
    /\ last_poll_ts = 0
    /\ frames = <<>>
    /\ ready = <<>>
    /\ faulted = <<>>
    /\ events = <<>>
    /\ found = <<>>
    /\ result = [c \in Cabins |-> <<>>]
    /\ fed = [n \in 1 .. MaxPolls |-> 0]
    /\ fed_ts = [c \in Cabins |-> 0]
    /\ since_drain = 0
    /\ overrun = FALSE

\* The transport, the engine's lifecycle fields and the worker's counters.
InitTransport(connected, running, thread) ==
    /\ conn = [connected |-> connected]
    /\ engine = [running |-> running, thread |-> thread]
    /\ worker_pc = "top"
    /\ stats = [errors |-> 0, reconnects |-> 0]
    /\ writer_pc = "idle"
    /\ io_log = [last |-> "none", reconnect_tried |-> TRUE, writes |-> 0,
                 starts |-> 0, spawned |-> 0]

\* The threads that run the health checks: the health worker and a request.
Threads == {"health-checker", "api-server"}

\* Nobody is inside the FaultReporter.
InitCallers ==
    /\ caller = [t \in Threads |-> [pc |-> "idle", code |-> "none"]]
    /\ rep_log = [last |-> [c \in FaultCodesUnderTest |-> "none"], activations |-> 0,
                  deletions |-> 0, calls |-> 0, key_errors |-> 0]

\* Nobody is inside run_all_checks.
InitChecker ==
    checker = [t \in Threads |->
                 [state |-> "idle", pc |-> 0, op |-> "none", report |-> <<>>,
                  seen |-> <<>>, runs |-> 0]]

\* The mock transport is connected from construction and the worker runs.
\* The threads that call log_record.
Loggers == {"processing-loop", "other-thread"}

\* The threads that run _shutdown: the main thread (signal handler, or the
\* finally clause of main) and the command thread (command q).
ShutdownThreads == {"main", "cmd-ctrl"}

\* targets[i].retries of the configured targets (default 3): zero, one, two.
MaxRetries == 2
PusherTargets == [1 .. 2 -> 0 .. MaxRetries]

\* Nobody has called stop(); the health checker is not started; the record
\* store is open and empty; nobody is shutting down; the processing loop is
\* started (ProcessingLoop.start: _running = True, _paused = False).
InitLife ==
    /\ life = [pstop |-> [pc |-> "idle", timed_out |-> FALSE, polls |-> 0, connects |-> 0],
               hc |-> [running |-> FALSE, thread |-> "none", pc |-> "top", iter |-> 0],
               hstop |-> [pc |-> "idle", timed_out |-> FALSE],
               old |-> [alive |-> FALSE, pc |-> "none", appends |-> 0]]
    /\ store = [open |-> TRUE, holder |-> "none", pc |-> [t \in Loggers |-> "idle"],
                cur |-> [t \in Loggers |-> 0], seq |-> 0, rows |-> <<>>,
                returned |-> <<>>, successes |-> 0, counted |-> <<>>, calls |-> 0]
    /\ shut = [pc |-> [t \in ShutdownThreads |-> 0], calls |-> <<>>, loop_running |-> TRUE,
               in_finally |-> FALSE, process |-> "running"]
    /\ ctl = [paused |-> FALSE, idled |-> FALSE, resumed |-> FALSE]
    /\ sender = [pc |-> "idle", label |-> 0, probability |-> 0, writes |-> <<>>,
                 raised |-> "none"]

\* AlarmPusher.__init__ with the given target lists; nothing pushed yet.
InitPusher(targets) ==
    pusher \in [targets : targets, pc : {"idle"}, level : {"none"}, target : {0},
                attempt : {0}, log : {<<>>}, raised : {"none"}]

\* The registered callbacks: each either returns or raises an Exception.
InitCallbacks(registered) ==
    cbs \in [registered : registered, code : {"none"}, activated : {FALSE},
             invoked : {<<>>}, returned : {FALSE}, raised : {"none"}]

InitAux ==
    /\ InitLife
    /\ InitPusher({[t \in 1 .. 2 |-> MaxRetries]})
    /\ InitCallbacks({<<"returns">>})

InitExt == InitTransport(TRUE, TRUE, "alive") /\ InitCallers /\ InitChecker /\ InitAux

InitFSM ==
    InitFSMs(CycleConfigs) /\ InitEngine /\ InitParts({TRUE}) /\ InitLoop /\ InitExt

\* ------------------------------------------------------------- unit-level calls on one CabinFSM
FsmUpdate ==
    \E c \in FsmUnderTest : \E frame \in CabinFrames(c) :
        /\ fsm' = [fsm EXCEPT ![c] = update(@, frame)]
        /\ call' = [op |-> "update", frame |-> <<frame>>, result |-> <<>>]
        /\ UNCHANGED <<cfg, nonFsmVars, extVars>>

FsmHarvest ==
    \E c \in FsmUnderTest :
        /\ call' = [op |-> "harvest", frame |-> <<>>, result |-> <<harvest(fsm[c])>>]
        /\ UNCHANGED <<cfg, fsm, nonFsmVars, extVars>>

FsmReset ==
    \E c \in FsmUnderTest :
        /\ fsm' = [fsm EXCEPT ![c] = reset(@)]
        /\ call' = [op |-> "reset", frame |-> <<>>, result |-> <<>>]
        /\ UNCHANGED <<cfg, nonFsmVars, extVars>>

FsmForceFault ==
    \E c \in FsmUnderTest :
        /\ fsm' = [fsm EXCEPT ![c] = force_fault(@)]
        /\ call' = [op |-> "force_fault", frame |-> <<>>, result |-> <<>>]
        /\ UNCHANGED <<cfg, nonFsmVars, extVars>>

FsmClearFault ==
    \E c \in FsmUnderTest :
        /\ fsm' = [fsm EXCEPT ![c] = clear_fault(@)]
        /\ call' = [op |-> "clear_fault", frame |-> <<>>, result |-> <<>>]
        /\ UNCHANGED <<cfg, nonFsmVars, extVars>>

NextFSM == FsmUpdate \/ FsmHarvest \/ FsmReset \/ FsmForceFault \/ FsmClearFault

SpecFSM == InitFSM /\ [][NextFSM]_vars

\* ------------------------------------------------------------- polling worker
\* _poll_loop, first half: db_read and _parse_frame (which stamps time.time()).
\* time.time() is the wall clock: two reads may get the same value, and the
\* clock may be set back between them, so any timestamp can follow any other.
PollRead(raws) ==
    /\ poll_pc = "read"
    /\ polls < MaxPolls
    /\ \E raw \in raws : \E ts \in Timestamps :
          poll_frame' = <<_parse_frame(raw, ts, polls + 1)>>
    /\ poll_pc' = "append"
    /\ UNCHANGED <<buffer, polls>>

\* The worker enters "with self._lock" only when nobody holds the lock.
poller_lock_acquired(l) == l = "free"

\* _poll_loop, second half: with self._lock: self._buffer.append(frame).
PollAppend ==
    /\ poll_pc = "append"
    /\ poller_lock_acquired(lock)
    /\ buffer' = deque_append(buffer, poll_frame[1], BufferSize)
    /\ polls' = polls + 1
    /\ poll_frame' = <<>>
    /\ poll_pc' = "read"

\* ------------------------------------------------------------- drain_frames_since
\* with self._lock: entered.
DrainEnter(since_ts) ==
    /\ drain_pc = "idle"
    /\ lock = "free"
    /\ lock' = "drain"
    /\ drain_pc' = "iter"
    /\ drain_since' = since_ts
    /\ drain_i' = 1
    /\ drain_out' = <<>>
    /\ drain_seen' = buffer

\* One step of [f for f in self._buffer if f.timestamp > since_ts].
DrainIter ==
    /\ drain_pc = "iter"
    /\ drain_i <= Len(buffer)
    /\ drain_out' = IF drain_keeps(buffer[drain_i], drain_since)
                    THEN Append(drain_out, buffer[drain_i])
                    ELSE drain_out
    /\ drain_i' = drain_i + 1
    /\ UNCHANGED <<drain_pc, drain_since, drain_seen, lock>>

\* The iterator is exhausted: the lock is released and the list returned.
DrainExit ==
    /\ drain_pc = "iter"
    /\ drain_i > Len(buffer)
    /\ drain_pc' = "done"
    /\ lock' = "free"
    /\ UNCHANGED <<drain_since, drain_i, drain_out, drain_seen>>

\* ------------------------------------------------------------- the engine alone
\* The PLC at rest: every cabin reads the plateau pressure.
RestingReads == RawReads({MaxPressure})

EnginePoll ==
    /\ PollRead(RestingReads)
    /\ UNCHANGED <<fsmVars, lock, drainVars, pipeVars>>
    /\ UNCHANGED extVars

EngineAppend ==
    /\ PollAppend
    /\ UNCHANGED <<fsmVars, lock, drainVars, pipeVars>>
    /\ UNCHANGED extVars

\* A caller (as in test_drain_frames) drains since any timestamp.
EngineDrainCall ==
    /\ \E ts \in 0 .. MaxTs : DrainEnter(ts)
    /\ UNCHANGED <<fsmVars, pollVars, pipeVars>>
    /\ UNCHANGED extVars

EngineDrainIter ==
    /\ DrainIter
    /\ UNCHANGED <<fsmVars, pollVars, pipeVars>>
    /\ UNCHANGED extVars

EngineDrainExit ==
    /\ DrainExit
    /\ UNCHANGED <<fsmVars, pollVars, pipeVars>>
    /\ UNCHANGED extVars

\* The caller has its list.
EngineDrainReturn ==
    /\ drain_pc = "done"
    /\ drain_pc' = "idle"
    /\ UNCHANGED <<fsmVars, pollVars, pipeVars, lock, drain_since, drain_i, drain_out, drain_seen>>
    /\ UNCHANGED extVars

NextEngine ==
    \/ EnginePoll
    \/ EngineAppend
    \/ EngineDrainCall
    \/ EngineDrainIter
    \/ EngineDrainExit
    \/ EngineDrainReturn

IdleConfig == CHOOSE c \in CycleConfigs : TRUE

InitEngineAlone ==
    InitFSMs({IdleConfig}) /\ InitEngine /\ InitParts({TRUE}) /\ InitLoop /\ InitExt

SpecEngine == InitEngineAlone /\ [][NextEngine]_vars

\* ------------------------------------------------------------- the parts the loop calls
\* Stored probabilities are in hundredths, standing for the six decimals kept
\* by round(x, 6): ProbOne is 1.0, Threshold is runtime.yaml's threshold
\* (default 0.3). The booster's output has one more digit (thousandths).
ProbOne == 100
Threshold == 30
RawPerUnit == 10
Probabilities == {250, 296, 300}

\* round(x, 6): to the nearest stored unit, halves to the even one.
round6(x) ==
    LET q == x \div RawPerUnit
        r == x % RawPerUnit
    IN  IF 2 * r > RawPerUnit \/ (2 * r = RawPerUnit /\ q % 2 = 1) THEN q + 1 ELSE q

\* SupervisedXGB.predict, given the probability the booster returns.
predict(prob, threshold) ==
    LET label == IF prob >= threshold * RawPerUnit THEN 1 ELSE 0
        confidence == IF label = 1 THEN prob ELSE ProbOne * RawPerUnit - prob
    IN  [label |-> label, probability |-> round6(prob), confidence |-> round6(confidence)]

\* The result _process_cabin synthesizes when the model is not loaded.
NoModelResult == [label |-> -1, probability |-> 0, confidence |-> 0]

\* write_back.scale and write_back.base (defaults).
WbScale == 10
WbBase == 0

\* int(x) for x = n / d: the digits after the point are dropped.
int_trunc(n, d) == IF n >= 0 THEN n \div d ELSE -((-n) \div d)

\* Mutant: the product is rounded down.
write_result_value_floor(label, probability) ==
    IF label = 1 THEN WbBase + ((probability * WbScale) \div ProbOne) ELSE WbBase

\* ResultSender.write_result: the value packed.
write_result_value(label, probability) ==
    IF label = 1 THEN WbBase + int_trunc(probability * WbScale, ProbOne) ELSE WbBase

\* DatabaseLogger.log_record: the row inserted (AUTOINCREMENT id).
log_record(rows, cavity_id, data, res) ==
    Append(rows, [id |-> Len(rows) + 1, cavity_id |-> cavity_id,
                  label |-> res.label, probability |-> res.probability,
                  confidence |-> res.confidence,
                  point_count |-> Len(data.pressures)])

\* The elapsed milliseconds _process_cabin reports.
LatencyValues == {10}

\* ------------------------------------------------------------- CycleFSMManager
\* Cabin ids in dict order (range(cabin_count)) that satisfy P.
RECURSIVE CabinsWhere(_, _)
CabinsWhere(states, c) ==
    IF c >= NumCabins THEN <<>>
    ELSE (IF fsm[c].state \in states THEN <<c>> ELSE <<>>) \o CabinsWhere(states, c + 1)

get_processing_cabins == CabinsWhere({"PROCESSING"}, 0)

get_fault_cabins == CabinsWhere({"FAULT"}, 0)

\* update_all with cabin_map = {c.cabin_index: c for c in frame.cabins}.
update_all(fsms, cabins) ==
    [c \in Cabins |->
        IF \E i \in 1 .. Len(cabins) : cabins[i].cabin_index = c
        THEN LET i == CHOOSE j \in 1 .. Len(cabins) :
                        /\ cabins[j].cabin_index = c
                        /\ \A k \in (j + 1) .. Len(cabins) : cabins[k].cabin_index # c
             IN  update(fsms[c], cabins[i])
        ELSE fsms[c]]

\* ------------------------------------------------------------- processing loop
\* The PLC during tests: each cabin at the plateau or at the test pressure.
TestReads == RawReads({0, MaxPressure})

PipePoll ==
    /\ PollRead(TestReads)
    /\ UNCHANGED <<fsmVars, lock, drainVars, pipeVars>>
    /\ UNCHANGED extVars

PipeAppend ==
    /\ PollAppend
    /\ since_drain' = since_drain + 1
    /\ UNCHANGED <<fsmVars, lock, drainVars, loopVars, partVars,
                   events, found, result, fed, fed_ts, overrun>>
    /\ UNCHANGED extVars

\* run_once -> _feed_fsm -> drain_frames_since(self._last_poll_ts): lock taken.
LoopDrain ==
    /\ loop_pc = "start"
    /\ DrainEnter(last_poll_ts)
    /\ loop_pc' = "drain"
    /\ overrun' = (overrun \/ since_drain >= BufferSize)
    /\ since_drain' = 0
    /\ UNCHANGED <<fsmVars, pollVars, last_poll_ts, frames, ready, faulted,
                   partVars, events, found, result, fed, fed_ts>>
    /\ UNCHANGED extVars

LoopDrainIter ==
    /\ loop_pc = "drain"
    /\ DrainIter
    /\ UNCHANGED <<fsmVars, pollVars, pipeVars>>
    /\ UNCHANGED extVars

LoopDrainExit ==
    /\ loop_pc = "drain"
    /\ DrainExit
    /\ UNCHANGED <<fsmVars, pollVars, pipeVars>>
    /\ UNCHANGED extVars

\* _feed_fsm has its list; "if not frames: return".
LoopDrained ==
    /\ loop_pc = "drain"
    /\ drain_pc = "done"
    /\ drain_pc' = "idle"
    /\ frames' = drain_out
    /\ loop_pc' = IF drain_out = <<>> THEN "ready" ELSE "feed"
    /\ drain_since' = 0
    /\ drain_i' = 0
    /\ drain_out' = <<>>
    /\ drain_seen' = <<>>
    /\ UNCHANGED <<fsmVars, pollVars, lock, last_poll_ts, ready, faulted,
                   partVars, histVars>>
    /\ UNCHANGED extVars

\* _feed_fsm: one pass of "for frame in frames", and after the last pass
\* self._last_poll_ts = frames[-1].timestamp.
LoopFeedFrame ==
    /\ loop_pc = "feed"
    /\ frames # <<>>
    /\ LET frame == Head(frames) IN
          /\ fsm' = update_all(fsm, frame.cabins)
          /\ frames' = Tail(frames)
          /\ fed' = [fed EXCEPT ![frame.seq] = @ + 1]
          /\ fed_ts' = [c \in Cabins |->
                          IF \E i \in 1 .. Len(frame.cabins) : frame.cabins[i].cabin_index = c
                          THEN frame.timestamp ELSE fed_ts[c]]
          /\ IF Tail(frames) = <<>>
             THEN last_poll_ts' = frame.timestamp /\ loop_pc' = "ready"
             ELSE UNCHANGED <<last_poll_ts, loop_pc>>
    /\ UNCHANGED <<cfg, call, pollVars, lock, drainVars, ready, faulted, partVars,
                   events, found, result, since_drain, overrun>>
    /\ UNCHANGED extVars

\* run_once: ready = self._fsm.get_processing_cabins().
LoopGetReady ==
    /\ loop_pc = "ready"
    /\ ready' = get_processing_cabins
    /\ found' = [i \in 1 .. Len(get_processing_cabins) |->
                   [cabin |-> get_processing_cabins[i],
                    points |-> point_count(fsm[get_processing_cabins[i]])]]
    /\ loop_pc' = "process"
    /\ UNCHANGED <<fsmVars, pollVars, lock, drainVars, last_poll_ts, frames, faulted,
                   partVars, events, result, fed, fed_ts, since_drain, overrun>>
    /\ UNCHANGED extVars

\* A call the iteration made for cabin c, and the exception it raised, if any.
Event(c, e) == [cabin |-> c, ev |-> e, raised |-> "none"]

Raised(c, e, exc) == [cabin |-> c, ev |-> e, raised |-> exc]

\* Whether _process_cabin goes on after the call returned or raised.
\* predict is called outside any try block.
continues_after_predict(raised) == ~raised

\* Mutant: a failed insert ends _process_cabin.
continues_after_insert_abort(inserted) == inserted

\* log_record is called in a try block whose handler raises F006.
continues_after_insert(inserted) == TRUE

\* Mutant: a failed write ends _process_cabin.
continues_after_write_abort(written) == written

\* write_result is called in a try block whose handler only logs.
continues_after_write(written) == TRUE

\* _process_cabin(cabin_id) for the next ready cabin.  predict may raise
\* ModelPredictError, log_record StorageError and write_result PLCWriteError.
\* An exception _process_cabin does not catch reaches run_once's handler,
\* which logs it, and the iteration is over.
LoopProcessCabin ==
    /\ loop_pc = "process"
    /\ ready # <<>>
    /\ LET c == Head(ready)
           data == harvest(fsm[c])
       IN  IF Len(data.pressures) < 2
           THEN /\ fsm' = [fsm EXCEPT ![c] = reset(@)]
                /\ events' = Append(events, Event(c, "reset"))
                /\ ready' = Tail(ready)
                /\ UNCHANGED <<loop_pc, partVars, result>>
           ELSE \E predicted \in (IF model_loaded THEN Probabilities \cup {-1} ELSE {0}) :
                \E inserted \in BOOLEAN : \E written \in BOOLEAN :
                \E elapsed_ms \in LatencyValues :
                LET raised == model_loaded /\ predicted = -1
                    res == IF raised \/ ~model_loaded THEN NoModelResult
                           ELSE predict(predicted, Threshold)
                    go1 == continues_after_predict(raised)
                    go2 == go1 /\ continues_after_insert(inserted)
                    go3 == go2 /\ continues_after_write(written)
                IN  /\ last_inference_ms' = IF go1 THEN elapsed_ms ELSE last_inference_ms
                    /\ db' = IF go1 /\ inserted THEN log_record(db, c, data, res) ELSE db
                    /\ reporter' = IF go2 /\ ~inserted THEN raise_fault(reporter, "F006")
                                   ELSE reporter
                    /\ plc_result' = IF go2 /\ written
                                     THEN <<write_result_value(res.label, res.probability)>>
                                     ELSE plc_result
                    /\ leak_alarms' = IF go3 /\ res.label = 0
                                      THEN push_leak_alarm(leak_alarms) ELSE leak_alarms
                    /\ fsm' = IF go3 THEN [fsm EXCEPT ![c] = reset(@)] ELSE fsm
                    /\ events' = events
                          \o (IF ~model_loaded THEN <<>>
                              ELSE IF raised THEN <<Raised(c, "predict", "ModelPredictError")>>
                              ELSE <<Event(c, "predict")>>)
                          \o (IF ~go1 THEN <<>>
                              ELSE IF inserted THEN <<Event(c, "log_record")>>
                              ELSE <<Raised(c, "log_record", "StorageError")>>)
                          \o (IF ~go2 THEN <<>>
                              ELSE IF written THEN <<Event(c, "write_result")>>
                              ELSE <<Raised(c, "write_result", "PLCWriteError")>>)
                          \o (IF go3 /\ res.label = 0
                              THEN <<Event(c, "push_leak_alarm")>> ELSE <<>>)
                          \o (IF go3 THEN <<Event(c, "reset")>> ELSE <<>>)
                    /\ result' = IF go1 THEN [result EXCEPT ![c] = <<res>>] ELSE result
                    /\ ready' = IF go3 THEN Tail(ready) ELSE <<>>
                    /\ loop_pc' = IF go3 THEN loop_pc ELSE "sleep"
                    /\ UNCHANGED model_loaded
    /\ UNCHANGED <<cfg, call, pollVars, lock, drainVars, last_poll_ts, frames, faulted,
                   found, fed, fed_ts, since_drain, overrun>>
    /\ UNCHANGED extVars

\* run_once: faulted = self._fsm.get_fault_cabins().
LoopGetFaulted ==
    /\ loop_pc = "process"
    /\ ready = <<>>
    /\ faulted' = get_fault_cabins
    /\ loop_pc' = "fault"
    /\ UNCHANGED <<fsmVars, pollVars, lock, drainVars, last_poll_ts, frames, ready,
                   partVars, histVars>>
    /\ UNCHANGED extVars

\* _handle_fault(cabin_id) for the next faulted cabin.
LoopHandleFault ==
    /\ loop_pc = "fault"
    /\ faulted # <<>>
    /\ LET c == Head(faulted) IN
          /\ reporter' = raise_fault(reporter, "F009")
          /\ fsm' = [fsm EXCEPT ![c] = clear_fault(@)]
          /\ events' = Append(events, Event(c, "clear_fault"))
          /\ faulted' = Tail(faulted)
    /\ UNCHANGED <<cfg, call, pollVars, lock, drainVars, loop_pc, last_poll_ts, frames,
                   ready, model_loaded, db, plc_result, leak_alarms, last_inference_ms,
                   found, result, fed, fed_ts, since_drain, overrun>>
    /\ UNCHANGED extVars

LoopFaultsDone ==
    /\ loop_pc = "fault"
    /\ faulted = <<>>
    /\ loop_pc' = "sleep"
    /\ UNCHANGED <<fsmVars, pollVars, lock, drainVars, last_poll_ts, frames, ready,
                   faulted, partVars, histVars>>
    /\ UNCHANGED extVars

\* time.sleep(self._loop_interval), and main calls run_once again.
LoopSleep ==
    /\ loop_pc = "sleep"
    /\ loop_pc' = "start"
    /\ events' = <<>>
    /\ found' = <<>>
    /\ result' = [c \in Cabins |-> <<>>]
    /\ UNCHANGED <<fsmVars, pollVars, lock, drainVars, last_poll_ts, frames, ready,
                   faulted, partVars, fed, fed_ts, since_drain, overrun>>
    /\ UNCHANGED extVars

Next ==
    \/ PipePoll
    \/ PipeAppend
    \/ LoopDrain
    \/ LoopDrainIter
    \/ LoopDrainExit
    \/ LoopDrained
    \/ LoopFeedFrame
    \/ LoopGetReady
    \/ LoopProcessCabin
    \/ LoopGetFaulted
    \/ LoopHandleFault
    \/ LoopFaultsDone
    \/ LoopSleep

\* The configuration of the assembled system: a rise ends a cycle from its
\* second point, and the timeout is shorter than the maximum duration.
PipelineConfigs ==
    { c \in CycleConfigs :
        /\ c.min_collection_points = 2
        /\ c.max_collection_duration_s = 2
        /\ c.collection_timeout_s = 1 }

Init ==
    InitFSMs(PipelineConfigs) /\ InitEngine /\ InitParts(BOOLEAN) /\ InitLoop /\ InitExt

Spec == Init /\ [][Next]_vars

\* ------------------------------------------------------------- claims on one CabinFSM
\* What one update call on an FSM does, seen from outside: cur is the FSM
\* before the call, frame the argument.
EndByRise(cur, frame) ==
    /\ frame.rt_pressure - cur.last_pressure[1] >= cfg.end_pressure_rise
    /\ point_count(cur) + 1 >= cfg.min_collection_points
EndByMaxPoints(cur, frame) ==
    point_count(cur) + 1 >= cfg.max_collection_points
EndByDuration(cur, frame) ==
    frame.timestamp - cur.data.start_time >= cfg.max_collection_duration_s
EndOfCycle(cur, frame) ==
    EndByRise(cur, frame) \/ EndByMaxPoints(cur, frame) \/ EndByDuration(cur, frame)
TimedOut(cur, frame) ==
    frame.timestamp - cur.data.start_time >= cfg.collection_timeout_s

\* C1: an update on an IDLE FSM starts a cycle iff a previous pressure is known
\* and previous - current >= start_pressure_drop; the starting update leaves the
\* FSM in COLLECTING (no second transition) with exactly the current frame as
\* its one data point and start_time = the frame's timestamp; otherwise the FSM
\* stays IDLE.
C1_IdleToCollecting ==
    [][\A c \in FsmUnderTest :
        (call'.op = "update" /\ fsm[c].state = "IDLE") =>
            LET frame == call'.frame[1]
                drop == /\ fsm[c].last_pressure # <<>>
                        /\ fsm[c].last_pressure[1] - frame.rt_pressure
                              >= cfg.start_pressure_drop
            IN  /\ (fsm'[c].state = "COLLECTING") <=> drop
                /\ fsm'[c].state \in {"IDLE", "COLLECTING"}
                /\ drop => /\ fsm'[c].data.pressures = <<frame.rt_pressure>>
                           /\ fsm'[c].data.timestamps = <<frame.timestamp>>
                           /\ point_count(fsm'[c]) = 1
                           /\ fsm'[c].data.start_time = frame.timestamp
    ]_vars

C1_Witness ==
    \E c \in FsmUnderTest :
        /\ call.op = "update"
        /\ fsm[c].state = "COLLECTING"
        /\ point_count(fsm[c]) = 1
        /\ fsm[c].data.start_time = call.frame[1].timestamp
        /\ cfg.max_collection_duration_s = 0

\* C2: an update on a COLLECTING FSM appends the frame and then moves to
\* PROCESSING iff (a) rise >= end_pressure_rise with point_count >=
\* min_collection_points, or (b) point_count >= max_collection_points, or (c)
\* timestamp - start_time >= max_collection_duration_s, all taken after the
\* append.
C2_CollectingToProcessing ==
    [][\A c \in FsmUnderTest :
        (call'.op = "update" /\ fsm[c].state = "COLLECTING") =>
            LET frame == call'.frame[1]
            IN  /\ fsm[c].last_pressure # <<>>
                /\ fsm'[c].data.pressures = Append(fsm[c].data.pressures, frame.rt_pressure)
                /\ fsm'[c].data.timestamps = Append(fsm[c].data.timestamps, frame.timestamp)
                /\ (fsm'[c].state = "PROCESSING") <=> EndOfCycle(fsm[c], frame)
    ]_vars

\* A cycle ended by the pressure rise alone, and a rise that came too early
\* (configuration with min_collection_points = 3) went by before it.
C2_Witness ==
    \E c \in FsmUnderTest :
        /\ call.op = "update"
        /\ fsm[c].state = "PROCESSING"
        /\ point_count(fsm[c]) < cfg.max_collection_points
        /\ call.frame[1].timestamp - fsm[c].data.start_time < cfg.max_collection_duration_s
        /\ fsm[c].data.pressures[Len(fsm[c].data.pressures)]
             - fsm[c].data.pressures[Len(fsm[c].data.pressures) - 1] >= cfg.end_pressure_rise

\* C3: an update on a COLLECTING FSM moves to FAULT iff timestamp - start_time
\* >= collection_timeout_s and no end-of-cycle condition holds; with an end
\* condition and the timeout together the result is PROCESSING.
C3_CollectingToFault ==
    [][\A c \in FsmUnderTest :
        (call'.op = "update" /\ fsm[c].state = "COLLECTING" /\ fsm[c].last_pressure # <<>>) =>
            LET frame == call'.frame[1]
            IN  /\ (fsm'[c].state = "FAULT")
                     <=> (TimedOut(fsm[c], frame) /\ ~EndOfCycle(fsm[c], frame))
                /\ (TimedOut(fsm[c], frame) /\ EndOfCycle(fsm[c], frame))
                     => fsm'[c].state = "PROCESSING"
    ]_vars

\* The timeout fired on an update: FAULT with the timed-out frame appended.
C3_Witness ==
    \E c \in FsmUnderTest :
        /\ call.op = "update"
        /\ fsm[c].state = "FAULT"
        /\ point_count(fsm[c]) >= 2
        /\ fsm[c].data.timestamps[point_count(fsm[c])] = call.frame[1].timestamp
        /\ call.frame[1].timestamp - fsm[c].data.start_time >= cfg.collection_timeout_s
        /\ call.frame[1].timestamp - fsm[c].data.start_time < cfg.max_collection_duration_s

\* C4 as stated: point_count >= 1 iff the state is COLLECTING or PROCESSING.
C4_Original ==
    \A c \in Cabins :
        (point_count(fsm[c]) >= 1) <=> (fsm[c].state \in {"COLLECTING", "PROCESSING"})

\* C4 amended: COLLECTING or PROCESSING implies point_count >= 1 and IDLE
\* implies point_count = 0; FAULT keeps whatever had been collected.
C4_PointCountByState ==
    \A c \in Cabins :
        /\ fsm[c].state \in {"COLLECTING", "PROCESSING"} => point_count(fsm[c]) >= 1
        /\ fsm[c].state = "IDLE" => point_count(fsm[c]) = 0

\* A collecting FSM forced into FAULT: the state the amendment is about.
C4_Witness ==
    \E c \in FsmUnderTest :
        /\ call.op = "force_fault"
        /\ fsm[c].state = "FAULT"
        /\ point_count(fsm[c]) >= 1

\* C5: IDLE implies an empty CycleData; COLLECTING implies at least one point
\* and five parallel sequences of equal length.
C5_DataShape ==
    \A c \in Cabins :
        LET d == fsm[c].data IN
        /\ fsm[c].state = "IDLE" =>
              /\ d.pressures = <<>> /\ d.angles = <<>> /\ d.timestamps = <<>>
              /\ d.ai_values = <<>> /\ d.positions = <<>>
        /\ fsm[c].state = "COLLECTING" =>
              /\ Len(d.pressures) >= 1
              /\ Len(d.angles) = Len(d.pressures)
              /\ Len(d.timestamps) = Len(d.pressures)
              /\ Len(d.ai_values) = Len(d.pressures)
              /\ Len(d.positions) = Len(d.pressures)

C5_Witness ==
    \E c \in FsmUnderTest :
        /\ call.op = "update"
        /\ fsm[c].state = "COLLECTING"
        /\ Len(fsm[c].data.pressures) >= 2
        /\ Len(fsm[c].data.angles) >= 2

\* ------------------------------------------------------------- claims on the ring buffer
\* C8: the buffer never holds more than its capacity, and it holds the most
\* recent min(n, capacity) of the n frames appended, in append order (frames
\* are numbered in append order by seq).
C8_RingBuffer ==
    LET k == Min(polls, BufferSize) IN
    /\ Len(buffer) <= BufferSize
    /\ Len(buffer) = k
    /\ \A i \in 1 .. Len(buffer) : buffer[i].seq = polls - k + i

\* More frames were appended than the buffer holds.
C8_Witness ==
    /\ polls > BufferSize
    /\ Len(buffer) = BufferSize
    /\ poll_pc = "read"

\* The indices of the frames of buf stamped later than since_ts.
Newer(buf, since_ts) == { i \in 1 .. Len(buf) : buf[i].timestamp > since_ts }

\* out lists exactly the frames of buf stamped later than since_ts, in order.
IsDrainOf(out, buf, since_ts) ==
    /\ Len(out) = Cardinality(Newer(buf, since_ts))
    /\ \A k \in 1 .. Len(out) :
          \E i \in Newer(buf, since_ts) :
              /\ Cardinality({ j \in Newer(buf, since_ts) : j < i }) = k - 1
              /\ out[k] = buf[i]

\* C9: the list drain_frames_since returns is exactly the frames in the buffer
\* stamped strictly later than since_ts, in buffer order; the buffer is the
\* same when the call releases the lock as when it took it, whatever the
\* polling worker does meanwhile.
C9_DrainFramesSince ==
    /\ drain_pc = "iter" => buffer = drain_seen
    /\ drain_pc = "done" => IsDrainOf(drain_out, drain_seen, drain_since)
    /\ (drain_pc = "iter" /\ drain_i > Len(buffer))
          => IsDrainOf(drain_out, buffer, drain_since)

\* A drain that excluded a frame stamped exactly since_ts and returned a later
\* one, while the worker had a frame waiting for the lock.
C9_Witness ==
    /\ drain_pc = "done"
    /\ \E i \in 1 .. Len(drain_seen) : drain_seen[i].timestamp = drain_since
    /\ Len(drain_out) >= 1
    /\ Len(drain_out) < Len(drain_seen)

\* ------------------------------------------------------------- claims on the processing loop
StrictlyIncreasing(q) == \A i \in 1 .. Len(q) - 1 : q[i] < q[i + 1]

\* C6: each frame the loop passes to a cabin's FSM is stamped later than the
\* frame passed to that FSM before it, whatever the poller stamped; hence the
\* timestamps of every CycleData are strictly increasing.
C6_FeedOrder ==
    /\ (loop_pc = "feed" /\ frames # <<>>) =>
          \A i \in 1 .. Len(Head(frames).cabins) :
              Head(frames).timestamp > fed_ts[Head(frames).cabins[i].cabin_index]
    /\ \A c \in Cabins : StrictlyIncreasing(fsm[c].data.timestamps)

\* C7: as long as every drain began with fewer than capacity frames appended
\* since the drain before it, no frame is passed to the FSMs twice, and once a
\* drain's frames are fed every frame appended before that drain has been
\* passed to the FSMs exactly once.
C7_EveryFrameOnce ==
    ~overrun =>
        /\ \A n \in 1 .. MaxPolls : fed[n] <= 1
        /\ loop_pc \in {"ready", "process", "fault", "sleep"} =>
              \A n \in 1 .. (polls - since_drain) : fed[n] = 1

\* What the iteration did for cabin c, in order.
EventsOf(c) ==
    LET mine == SelectSeq(events, LAMBDA e : e.cabin = c)
    IN  [i \in 1 .. Len(mine) |-> mine[i].ev]

\* C10: when an iteration is over, every cabin it found in PROCESSING with at
\* least 2 points went through inference (or got the synthesized result when
\* the model is not loaded), record insert, PLC write, a leak alarm iff label
\* = 0, and reset, in this order, and is IDLE; a cabin found with fewer than 2
\* points was only reset.
C10_ProcessOrder ==
    loop_pc = "sleep" =>
        \A i \in 1 .. Len(found) :
            LET c == found[i].cabin IN
            IF found[i].points >= 2
            THEN /\ result[c] # <<>>
                 /\ ~model_loaded => result[c][1] = NoModelResult
                 /\ EventsOf(c) =
                       (IF model_loaded THEN <<"predict">> ELSE <<>>)
                       \o <<"log_record", "write_result">>
                       \o (IF result[c][1].label = 0 THEN <<"push_leak_alarm">> ELSE <<>>)
                       \o <<"reset">>
                 /\ fsm[c].state = "IDLE"
            ELSE /\ EventsOf(c) = <<"reset">>
                 /\ fsm[c].state = "IDLE"

\* ------------------------------------------------------------- claims on failures while a cabin is processed
InEvents(e) == \E i \in 1 .. Len(events) : events[i] = e

HasEvent(c, e) == \E i \in 1 .. Len(events) : events[i].cabin = c /\ events[i].ev = e

HasRow(c, res) ==
    \E i \in 1 .. Len(db) : db[i].cavity_id = c /\ db[i].label = res.label

\* C11: when predict raises while a cabin is processed, the iteration goes on
\* with label -1 for that cabin: a record with label -1 is inserted, the
\* cabin's FSM is reset to IDLE, and F002 is active.
C11_PredictError ==
    \A c \in Cabins :
        InEvents(Raised(c, "predict", "ModelPredictError")) =>
            /\ result[c] # <<>>
            /\ result[c][1].label = -1
            /\ HasRow(c, result[c][1])
            /\ HasEvent(c, "reset")
            /\ fsm[c].state = "IDLE"
            /\ "F002" \in ActiveCodes(reporter)

\* C12: when the record insert fails while a cabin is processed, F006 is
\* active, the PLC write is still attempted, the leak alarm is still pushed if
\* the label is 0, and the cabin's FSM is reset to IDLE in that iteration.
C12_InsertFailure ==
    \A c \in Cabins :
        InEvents(Raised(c, "log_record", "StorageError")) =>
            /\ "F006" \in ActiveCodes(reporter)
            /\ result[c] # <<>>
            /\ LET mine == EventsOf(c)
                   n == Len(mine)
                   tail == <<"write_result">>
                           \o (IF result[c][1].label = 0 THEN <<"push_leak_alarm">> ELSE <<>>)
                           \o <<"reset">>
               IN  /\ n >= Len(tail) + 1
                   /\ SubSeq(mine, n - Len(tail), n) = <<"log_record">> \o tail
            /\ fsm[c].state = "IDLE"

C12_Witness ==
    \E c \in Cabins :
        /\ InEvents(Raised(c, "log_record", "StorageError"))
        /\ result[c] # <<>>
        /\ result[c][1].label = 0
        /\ HasEvent(c, "push_leak_alarm")
        /\ "F006" \in ActiveCodes(reporter)
        /\ fsm[c].state = "IDLE"

\* C13: a step of the loop in which write_result raises PLCWriteError for a
\* cabin keeps the record it inserted for that cabin, runs the leak-alarm
\* step (a push iff the label is 0), resets the cabin's FSM to IDLE, and
\* leaves the loop at the remaining ready cabins.
C13_WriteFailureStep ==
    \A c \in Cabins :
        LET failed == Raised(c, "write_result", "PLCWriteError")
            before == \E i \in 1 .. Len(events) : events[i] = failed
            after == \E i \in 1 .. Len(events') : events'[i] = failed
            logged == \E i \in 1 .. Len(events') : events'[i] = Event(c, "log_record")
            pushed == \E i \in 1 .. Len(events') : events'[i] = Event(c, "push_leak_alarm")
        IN  (~before /\ after) =>
               /\ result'[c] # <<>>
               /\ logged =>
                     /\ Len(db') = Len(db) + 1
                     /\ SubSeq(db', 1, Len(db)) = db
                     /\ db'[Len(db')].cavity_id = c
                     /\ db'[Len(db')].label = result'[c][1].label
               /\ pushed <=> (result'[c][1].label = 0)
               /\ leak_alarms' = IF result'[c][1].label = 0
                                 THEN push_leak_alarm(leak_alarms) ELSE leak_alarms
               /\ fsm'[c].state = "IDLE"
               /\ plc_result' = plc_result
               /\ loop_pc' = "process"
               /\ ready' = Tail(ready)

C13_WriteFailure == [][C13_WriteFailureStep]_vars

C13_Witness ==
    \E c \in Cabins :
        /\ InEvents(Raised(c, "write_result", "PLCWriteError"))
        /\ InEvents(Event(c, "log_record"))
        /\ InEvents(Event(c, "push_leak_alarm"))
        /\ HasRow(c, result[c][1])
        /\ fsm[c].state = "IDLE"

\* ------------------------------------------------------------- the FaultReporter, one call at a time
CallRaiseFault ==
    /\ rep_log.calls < MaxFaultCalls
    /\ \E code \in FaultCodesUnderTest :
          /\ reporter' = raise_fault(reporter, code)
          /\ rep_log' = [rep_log EXCEPT
                            !.last[code] = "raise",
                            !.activations = IF rep_log.last[code] = "raise" THEN @ ELSE @ + 1,
                            !.calls = @ + 1]
    /\ UNCHANGED <<fsmVars, pollVars, lock, drainVars, loopVars, histVars,
                   model_loaded, db, plc_result, leak_alarms, last_inference_ms,
                   transportVars, caller, checker, lifeVars>>

CallResolveFault ==
    /\ rep_log.calls < MaxFaultCalls
    /\ \E code \in FaultCodesUnderTest :
          /\ reporter' = resolve_fault(reporter, code)
          /\ rep_log' = [rep_log EXCEPT !.last[code] = "resolve", !.calls = @ + 1]
    /\ UNCHANGED <<fsmVars, pollVars, lock, drainVars, loopVars, histVars,
                   model_loaded, db, plc_result, leak_alarms, last_inference_ms,
                   transportVars, caller, checker, lifeVars>>

NextReporter ==
    \/ CallRaiseFault
    \/ CallResolveFault

InitReporter ==
    InitFSMs({IdleConfig}) /\ InitEngine /\ InitParts({TRUE}) /\ InitLoop /\ InitExt

SpecReporter == InitReporter /\ [][NextReporter]_vars

\* C14: after any sequence of raise_fault and resolve_fault calls made one at
\* a time, the active dict holds at most one event per code, a code is active
\* iff the last call on it was a raise, and the history entries and the
\* callback invocations number exactly the inactive-to-active transitions.
C14_FaultDedup ==
    /\ \A i, j \in 1 .. Len(reporter.active_faults) :
          i # j => reporter.active_faults[i].code # reporter.active_faults[j].code
    /\ \A code \in FaultCodesUnderTest :
          (code \in ActiveCodes(reporter)) <=> (rep_log.last[code] = "raise")
    /\ Len(reporter.history) = rep_log.activations
    /\ reporter.notified = rep_log.activations * Len(Callbacks)

\* A code raised twice (timestamp refreshed) and then resolved.
C14_Witness ==
    \E code \in FaultCodesUnderTest :
        /\ rep_log.last[code] = "resolve"
        /\ code \notin ActiveCodes(reporter)
        /\ \E i \in 1 .. Len(reporter.history) :
              /\ reporter.history[i].code = code
              /\ reporter.history[i].refreshed
              /\ reporter.history[i].resolved
        /\ reporter.notified = Len(reporter.history)
        /\ Len(Callbacks) = 1

\* Position of a code in the registry.
RegistrationIndex(code) == CHOOSE i \in 1 .. Len(FaultOrder) : FaultOrder[i] = code

\* The PLC value of the maximal-severity code of S registered first.
HighestByRegistration(S) ==
    IF S = {} THEN 0
    ELSE LET worst == CHOOSE c \in S :
                        \A d \in S :
                           \/ LevelOrder[FAULT_CODES[d].level] < LevelOrder[FAULT_CODES[c].level]
                           \/ /\ FAULT_CODES[d].level = FAULT_CODES[c].level
                              /\ RegistrationIndex(c) <= RegistrationIndex(d)
         IN  FAULT_CODES[worst].plc_value

\* C16: get_highest_plc_value() is 0 when nothing is active and otherwise the
\* PLC value of the active code of highest severity, the one registered first
\* among equals, whatever the order in which the codes were raised.
C16_HighestPlcValue ==
    get_highest_plc_value(reporter) = HighestByRegistration(ActiveCodes(reporter))

\* ------------------------------------------------------------- the FaultReporter called from two threads
\* raise_fault and resolve_fault take no lock: between the membership test
\* and the statements that follow it another thread may run.

\* self._active_faults[code] = event: a present key keeps its position.
dict_set(active, code) ==
    IF \E i \in 1 .. Len(active) : active[i].code = code
    THEN [i \in 1 .. Len(active) |->
             IF active[i].code = code THEN FaultEvent(code) ELSE active[i]]
    ELSE Append(active, FaultEvent(code))

\* The event of this code gets .resolved = True (it is shared with _history).
mark_resolved(r, code) ==
    [r EXCEPT !.active_faults = [i \in 1 .. Len(@) |->
                                    IF @[i].code = code THEN [@[i] EXCEPT !.resolved = TRUE]
                                    ELSE @[i]],
              !.history = [i \in 1 .. Len(@) |->
                              IF i = LastIndexOf(r.history, code)
                              THEN [@[i] EXCEPT !.resolved = TRUE] ELSE @[i]]]

otherVars ==
    <<fsmVars, pollVars, lock, drainVars, loopVars, histVars,
      model_loaded, db, plc_result, leak_alarms, last_inference_ms, transportVars,
      lifeVars>>

\* raise_fault: "if code not in self._active_faults".
ThreadRaiseCheck(t) ==
    /\ caller[t].pc = "idle"
    /\ rep_log.calls < MaxFaultCalls
    /\ \E code \in FaultCodesUnderTest :
          caller' = [caller EXCEPT ![t] =
                        [pc |-> IF code \notin ActiveCodes(reporter)
                                THEN "raise_new" ELSE "raise_old",
                         code |-> code]]
    /\ rep_log' = [rep_log EXCEPT !.calls = @ + 1]
    /\ UNCHANGED <<otherVars, reporter, checker>>

\* raise_fault, the branch of a code found inactive: insert, append to the
\* history, run the callbacks.
ThreadRaiseNew(t) ==
    /\ caller[t].pc = "raise_new"
    /\ reporter' = [active_faults |-> dict_set(reporter.active_faults, caller[t].code),
                    history |-> Append(reporter.history, FaultEvent(caller[t].code)),
                    notified |-> reporter.notified + Len(Callbacks)]
    /\ rep_log' = [rep_log EXCEPT !.activations = @ + 1]
    /\ caller' = [caller EXCEPT ![t] = [pc |-> "idle", code |-> "none"]]
    /\ UNCHANGED <<otherVars, checker>>

\* raise_fault, the branch of a code found active:
\* self._active_faults[code].timestamp = time.time(), a KeyError if the key
\* has been deleted since the test.
ThreadRaiseRefresh(t) ==
    /\ caller[t].pc = "raise_old"
    /\ IF caller[t].code \in ActiveCodes(reporter)
       THEN /\ reporter' = raise_fault(reporter, caller[t].code)
            /\ UNCHANGED rep_log
       ELSE /\ rep_log' = [rep_log EXCEPT !.key_errors = @ + 1]
            /\ UNCHANGED reporter
    /\ caller' = [caller EXCEPT ![t] = [pc |-> "idle", code |-> "none"]]
    /\ UNCHANGED <<otherVars, checker>>

\* resolve_fault: "if code in self._active_faults".
ThreadResolveCheck(t) ==
    /\ caller[t].pc = "idle"
    /\ rep_log.calls < MaxFaultCalls
    /\ \E code \in FaultCodesUnderTest :
          caller' = [caller EXCEPT ![t] =
                        IF code \in ActiveCodes(reporter)
                        THEN [pc |-> "resolve_mark", code |-> code]
                        ELSE [pc |-> "idle", code |-> "none"]]
    /\ rep_log' = [rep_log EXCEPT !.calls = @ + 1]
    /\ UNCHANGED <<otherVars, reporter, checker>>

\* resolve_fault: self._active_faults[code].resolved = True.
ThreadResolveMark(t) ==
    /\ caller[t].pc = "resolve_mark"
    /\ IF caller[t].code \in ActiveCodes(reporter)
       THEN /\ reporter' = mark_resolved(reporter, caller[t].code)
            /\ caller' = [caller EXCEPT ![t].pc = "resolve_del"]
            /\ UNCHANGED rep_log
       ELSE /\ rep_log' = [rep_log EXCEPT !.key_errors = @ + 1]
            /\ caller' = [caller EXCEPT ![t] = [pc |-> "idle", code |-> "none"]]
            /\ UNCHANGED reporter
    /\ UNCHANGED <<otherVars, checker>>

\* resolve_fault: del self._active_faults[code].
ThreadResolveDel(t) ==
    /\ caller[t].pc = "resolve_del"
    /\ IF caller[t].code \in ActiveCodes(reporter)
       THEN /\ reporter' = [reporter EXCEPT !.active_faults =
                                SelectSeq(@, LAMBDA e : e.code # caller[t].code)]
            /\ rep_log' = [rep_log EXCEPT !.deletions = @ + 1]
       ELSE /\ rep_log' = [rep_log EXCEPT !.key_errors = @ + 1]
            /\ UNCHANGED reporter
    /\ caller' = [caller EXCEPT ![t] = [pc |-> "idle", code |-> "none"]]
    /\ UNCHANGED <<otherVars, checker>>

NextReporterThreads ==
    \/ \E t \in Threads : ThreadRaiseCheck(t)
    \/ \E t \in Threads : ThreadRaiseNew(t)
    \/ \E t \in Threads : ThreadRaiseRefresh(t)
    \/ \E t \in Threads : ThreadResolveCheck(t)
    \/ \E t \in Threads : ThreadResolveMark(t)
    \/ \E t \in Threads : ThreadResolveDel(t)

SpecReporterThreads == InitReporter /\ [][NextReporterThreads]_vars

\* Events of a code in the history that were never resolved.
Unresolved(code) ==
    { i \in 1 .. Len(reporter.history) :
        reporter.history[i].code = code /\ ~reporter.history[i].resolved }

\* C15: calls of raise_fault and resolve_fault made concurrently behave as if
\* made in some order one after the other: no call fails, a code is never
\* activated again before its event was resolved (so two concurrent raises of
\* an inactive code give one history entry and one round of callbacks).
C15_Serialized ==
    /\ rep_log.key_errors = 0
    /\ \A code \in FaultCodesUnderTest : Cardinality(Unresolved(code)) <= 1
    /\ reporter.notified = Len(reporter.history) * Len(Callbacks)

\* ------------------------------------------------------------- HealthChecker
\* run_all_checks runs the probes in this order.
Probes == <<"plc_connection", "model_loaded", "disk_space", "inference_latency",
            "polling_thread", "fsm_stuck", "database">>

ProbeCode == [plc_connection |-> "F001", model_loaded |-> "F002", disk_space |-> "F005",
              inference_latency |-> "F004", polling_thread |-> "F008",
              fsm_stuck |-> "F009", database |-> "F007"]

\* The status a probe reports when its condition is not met.
ProbeFailStatus == [plc_connection |-> "FAIL", model_loaded |-> "FAIL", disk_space |-> "FAIL",
                    inference_latency |-> "WARN", polling_thread |-> "FAIL",
                    fsm_stuck |-> "WARN", database |-> "OK"]

\* checks.inference_latency.max_ms (default) and the database limit in MB.
MaxMs == 500
DbLimitMb == 450

\* What the loop reports as latency (one over the limit), what disk_usage does (returns enough
\* free space or raises), the database size.
LatencyReports == {MaxMs + 100}
DiskOutcomes == {"ok", "error"}
DbSizesMb == {1}

\* PollingEngine.is_running and .plc_connected.
is_running == engine.running /\ engine.thread = "alive"

plc_connected == conn.connected

\* _check_fsm: the cabins in COLLECTING for longer than max_stuck_duration_s,
\* given the cabins whose collection is that old.
stuck_cabins(old) == { c \in Cabins : fsm[c].state = "COLLECTING" /\ c \in old }

\* What a probe reads: the engine's properties, the model's flag, the result
\* of disk_usage, the last reported latency, the stuck cabins, the file size.
probe_reading(name, disk, size_mb) ==
    CASE name = "plc_connection" -> plc_connected
      [] name = "model_loaded" -> model_loaded
      [] name = "disk_space" -> disk
      [] name = "inference_latency" -> last_inference_ms
      [] name = "polling_thread" -> is_running
      [] name = "fsm_stuck" -> stuck_cabins(Cabins)
      [] name = "database" -> size_mb

\* Mutant: the latency probe never finds the latency too high.
probe_ok_latency_ignored(name, v) ==
    CASE name \in {"plc_connection", "model_loaded", "polling_thread"} -> v
      [] name = "disk_space" -> v = "ok"
      [] name = "inference_latency" -> TRUE
      [] name = "fsm_stuck" -> v = {}
      [] name = "database" -> ~(v > DbLimitMb)

\* The condition a probe evaluates on what it read: TRUE when it resolves
\* its fault, FALSE when it raises it.
probe_ok(name, v) ==
    CASE name \in {"plc_connection", "model_loaded", "polling_thread"} -> v
      [] name = "disk_space" -> v = "ok"
      [] name = "inference_latency" -> v <= MaxMs
      [] name = "fsm_stuck" -> v = {}
      [] name = "database" -> ~(v > DbLimitMb)

\* One step of a raise_fault / resolve_fault call that is past its membership
\* test: the reporter after the step and what comes next.
reporter_step(r, op, code) ==
    CASE op = "raise_new" ->
            [reporter |-> [active_faults |-> dict_set(r.active_faults, code),
                           history |-> Append(r.history, FaultEvent(code)),
                           notified |-> r.notified + Len(Callbacks)],
             next |-> "done"]
      [] op = "raise_old" ->
            IF code \in ActiveCodes(r)
            THEN [reporter |-> raise_fault(r, code), next |-> "done"]
            ELSE [reporter |-> r, next |-> "KeyError"]
      [] op = "resolve_mark" ->
            IF code \in ActiveCodes(r)
            THEN [reporter |-> mark_resolved(r, code), next |-> "resolve_del"]
            ELSE [reporter |-> r, next |-> "KeyError"]
      [] op = "resolve_del" ->
            IF code \in ActiveCodes(r)
            THEN [reporter |-> [r EXCEPT !.active_faults =
                                   SelectSeq(@, LAMBDA e : e.code # code)],
                  next |-> "done"]
            ELSE [reporter |-> r, next |-> "KeyError"]

healthOther ==
    <<fsmVars, pollVars, lock, drainVars, loopVars, histVars,
      db, plc_result, leak_alarms, worker_pc, stats, writer_pc, io_log, caller, rep_log,
      lifeVars>>

\* The health worker ticks MaxRuns times; requests come one fewer times.
RunLimit(t) == IF t = "health-checker" THEN MaxRuns ELSE MaxRuns - 1

\* _loop's next tick, or a request's call of run_all_checks.
RunStart(t) ==
    /\ checker[t].state # "running"
    /\ checker[t].runs < RunLimit(t)
    /\ checker' = [checker EXCEPT ![t] =
                      [state |-> "running", pc |-> 1, op |-> "none", report |-> <<>>,
                       seen |-> <<>>, runs |-> @.runs + 1]]
    /\ UNCHANGED <<healthOther, conn, engine, model_loaded, last_inference_ms, reporter>>

\* The next probe evaluates its condition and enters raise_fault or
\* resolve_fault up to the membership test.  _check_disk catches the
\* exception of disk_usage and reports ERROR.
ProbeBegin(t) ==
    /\ checker[t].state = "running"
    /\ checker[t].op = "none"
    /\ checker[t].pc \in 1 .. Len(Probes)
    /\ \E disk \in DiskOutcomes : \E size_mb \in DbSizesMb :
          LET name == Probes[checker[t].pc]
              code == ProbeCode[name]
              v == probe_reading(name, disk, size_mb)
              ok == probe_ok(name, v)
              active == code \in ActiveCodes(reporter)
          IN  checker' = [checker EXCEPT ![t] =
                 IF name = "disk_space" /\ disk = "error"
                 THEN [@ EXCEPT !.report = Append(@, "ERROR"), !.seen = Append(@, v),
                                !.pc = @ + 1]
                 ELSE IF ok /\ ~active
                 THEN [@ EXCEPT !.report = Append(@, "OK"), !.seen = Append(@, v),
                                !.pc = @ + 1]
                 ELSE [@ EXCEPT !.seen = Append(@, v),
                                !.op = IF ok THEN "resolve_mark"
                                       ELSE IF active THEN "raise_old" ELSE "raise_new"]]
    /\ UNCHANGED <<healthOther, conn, engine, model_loaded, last_inference_ms, reporter>>

\* The next step of the probe's raise_fault or resolve_fault call.  A
\* KeyError leaves the probe and run_all_checks: the caller gets no report.
ProbeAct(t) ==
    /\ checker[t].state = "running"
    /\ checker[t].op # "none"
    /\ LET name == Probes[checker[t].pc]
           st == reporter_step(reporter, checker[t].op, ProbeCode[name])
       IN  /\ reporter' = st.reporter
           /\ checker' = [checker EXCEPT ![t] =
                  CASE st.next = "done" ->
                          [@ EXCEPT !.report = Append(@, IF probe_ok(name, checker[t].seen[checker[t].pc])
                                                         THEN "OK" ELSE ProbeFailStatus[name]),
                                    !.pc = @ + 1, !.op = "none"]
                    [] st.next = "resolve_del" -> [@ EXCEPT !.op = "resolve_del"]
                    [] st.next = "KeyError" ->
                          [@ EXCEPT !.state = "raised", !.pc = 0, !.op = "none",
                                    !.report = <<>>]]
    /\ UNCHANGED <<healthOther, conn, engine, model_loaded, last_inference_ms>>

\* run_all_checks returns its report.
RunReturn(t) ==
    /\ checker[t].state = "running"
    /\ checker[t].op = "none"
    /\ checker[t].pc = Len(Probes) + 1
    /\ checker' = [checker EXCEPT ![t].state = "returned", ![t].pc = 0]
    /\ UNCHANGED <<healthOther, conn, engine, model_loaded, last_inference_ms, reporter>>

\* The link drops (a failed read or write) or the poller reconnects.
LinkChange ==
    /\ engine.running
    /\ conn' = [conn EXCEPT !.connected = ~@]
    /\ UNCHANGED <<healthOther, engine, model_loaded, last_inference_ms, reporter, checker>>

\* The processing loop calls report_inference_latency.
ReportLatency ==
    /\ \E ms \in LatencyReports : last_inference_ms' = ms
    /\ UNCHANGED <<healthOther, conn, engine, model_loaded, reporter, checker>>

\* PollingEngine.stop.
PollerStop ==
    /\ engine.running
    /\ engine' = [running |-> FALSE, thread |-> "joined"]
    /\ conn' = [conn EXCEPT !.connected = FALSE]
    /\ UNCHANGED <<healthOther, model_loaded, last_inference_ms, reporter, checker>>

NextHealth ==
    \/ \E t \in Threads : RunStart(t)
    \/ \E t \in Threads : ProbeBegin(t)
    \/ \E t \in Threads : ProbeAct(t)
    \/ \E t \in Threads : RunReturn(t)
    \/ LinkChange
    \/ ReportLatency
    \/ PollerStop

InitHealth ==
    InitFSMs({IdleConfig}) /\ InitEngine /\ InitParts(BOOLEAN) /\ InitLoop /\ InitExt

SpecHealth == InitHealth /\ [][NextHealth]_vars

\* Position of a probe in the report.
ProbeIndex(name) == CHOOSE i \in 1 .. Len(Probes) : Probes[i] = name

\* What a probe read that makes it raise its fault.
ConditionNotMet(name, v) ==
    CASE name = "plc_connection" -> ~v
      [] name = "model_loaded" -> ~v
      [] name = "inference_latency" -> v > MaxMs
      [] name = "polling_thread" -> ~v

\* C17: whenever the plc_connection, model_loaded, inference_latency or
\* polling_thread probe of a run of the checks has run, its fault (F001, F002,
\* F004, F008) is active iff the probe found the transport not connected, the
\* model not loaded, the last latency above max_ms, the worker not alive; so a
\* fault a probe raised is gone after the probe of a later tick that finds the
\* condition recovered.
C17_ProbesStep ==
    \A t \in Threads :
        (/\ checker[t].state = "running"
         /\ checker'[t].pc = checker[t].pc + 1
         /\ Probes[checker[t].pc] \in {"plc_connection", "model_loaded",
                                        "inference_latency", "polling_thread"}) =>
            ((ProbeCode[Probes[checker[t].pc]] \in ActiveCodes(reporter'))
                <=> ConditionNotMet(Probes[checker[t].pc],
                                    checker'[t].seen[checker[t].pc]))

C18_ProbeExceptions ==
    \A t \in Threads :
        /\ checker[t].state # "raised"
        /\ checker[t].state = "returned" =>
              /\ Len(checker[t].report) = Len(Probes)
              /\ checker[t].seen[ProbeIndex("disk_space")] = "error" =>
                    checker[t].report[ProbeIndex("disk_space")] = "ERROR"

\* ------------------------------------------------------------- the real transport
\* What the engine's worker, start() and db_write leave alone.
transportOther ==
    <<fsmVars, poll_pc, lock, drainVars, pipeVars, caller, rep_log, checker, lifeVars>>

\* Mutant: a failed call leaves the connected flag as it was.
connected_after_io_kept(connected, ok) == connected

\* S7Connection.db_read / db_write once past the first test: the except clause
\* clears _connected when the client call fails.
connected_after_io(connected, ok) == IF ok THEN connected ELSE FALSE

\* Mutant: start() has no early return.
start_never_returns_early(running) == FALSE

\* PollingEngine.start: "if self._running: return".
start_returns_early(running) == running

\* PollingEngine.start: past the early return _running is set, then connect()
\* is called; the worker thread is created only when connect() returned.
StartEngine ==
    /\ io_log.starts < MaxStarts
    /\ IF start_returns_early(engine.running)
       THEN /\ io_log' = [io_log EXCEPT !.last = "start_returned_early", !.starts = @ + 1]
            /\ UNCHANGED <<conn, engine, worker_pc>>
       ELSE \E ok \in BOOLEAN :
            /\ conn' = [connected |-> ok]
            /\ engine' = [running |-> TRUE,
                          thread |-> IF ok THEN "alive" ELSE engine.thread]
            /\ worker_pc' = IF ok THEN "top" ELSE worker_pc
            /\ io_log' = [io_log EXCEPT !.last = IF ok THEN "started" ELSE "start_raised",
                                        !.starts = @ + 1,
                                        !.spawned = IF ok THEN @ + 1 ELSE @]
    /\ UNCHANGED <<stats, writer_pc, buffer, poll_frame, polls, transportOther>>

\* _poll_loop: "if not self._conn.connected" at the top of an iteration.
WorkerCheck ==
    /\ engine.thread = "alive"
    /\ engine.running
    /\ worker_pc = "top"
    /\ polls < MaxPolls
    /\ stats.errors < MaxErrors
    /\ worker_pc' = IF conn.connected THEN "read" ELSE "reconnect"
    /\ UNCHANGED <<conn, engine, stats, writer_pc, io_log, buffer, poll_frame, polls,
                   transportOther>>

\* _try_reconnect, first statement: self._conn.disconnect().
WorkerDisconnect ==
    /\ engine.thread = "alive"
    /\ worker_pc \in {"reconnect", "handler"}
    /\ conn' = [connected |-> FALSE]
    /\ worker_pc' = IF worker_pc = "reconnect" THEN "reconnect_connect" ELSE "handler_connect"
    /\ UNCHANGED <<engine, stats, writer_pc, io_log, buffer, poll_frame, polls, transportOther>>

\* _try_reconnect, self._conn.connect(): counted when it succeeds. Called from
\* the top of the loop, the worker reads on when it is connected and sleeps
\* reconnect_interval_s otherwise; called from the except clause, the
\* iteration ends.
WorkerConnect ==
    /\ engine.thread = "alive"
    /\ worker_pc \in {"reconnect_connect", "handler_connect"}
    /\ \E ok \in BOOLEAN :
          /\ conn' = [connected |-> ok]
          /\ stats' = [stats EXCEPT !.reconnects = IF ok THEN @ + 1 ELSE @]
          /\ io_log' = [io_log EXCEPT !.last = IF ok THEN "reconnected" ELSE "reconnect_failed",
                                      !.reconnect_tried = TRUE]
          /\ worker_pc' = IF worker_pc = "handler_connect" THEN "top"
                          ELSE IF ok THEN "read" ELSE "sleep"
    /\ UNCHANGED <<engine, writer_pc, buffer, poll_frame, polls, transportOther>>

\* time.sleep(self._reconnect_interval); continue.
WorkerSleep ==
    /\ engine.thread = "alive"
    /\ worker_pc = "sleep"
    /\ worker_pc' = "top"
    /\ io_log' = [io_log EXCEPT !.last = "slept"]
    /\ UNCHANGED <<conn, engine, stats, writer_pc, buffer, poll_frame, polls, transportOther>>

\* self._conn.db_read(...) and _parse_frame: db_read raises PLCConnectionError
\* when the flag is down, PLCReadError when the client call fails; the except
\* clause of _poll_loop counts the error.
WorkerRead ==
    /\ engine.thread = "alive"
    /\ worker_pc = "read"
    /\ \E ok \in BOOLEAN : \E raw \in RestingReads : \E ts \in Timestamps :
          LET done == conn.connected /\ ok IN
          /\ conn' = [connected |-> IF conn.connected
                                    THEN connected_after_io(conn.connected, ok)
                                    ELSE conn.connected]
          /\ poll_frame' = IF done THEN <<_parse_frame(raw, ts, polls + 1)>> ELSE <<>>
          /\ stats' = [stats EXCEPT !.errors = IF done THEN @ ELSE @ + 1]
          /\ worker_pc' = IF done THEN "append" ELSE "handler"
          /\ io_log' = [io_log EXCEPT !.last = IF done THEN "read_ok" ELSE "read_failed",
                                      !.reconnect_tried = IF done THEN @ ELSE FALSE]
    /\ UNCHANGED <<engine, writer_pc, buffer, polls, transportOther>>

\* with self._lock: self._buffer.append(frame); total_polls += 1.
WorkerAppend ==
    /\ engine.thread = "alive"
    /\ worker_pc = "append"
    /\ poller_lock_acquired(lock)
    /\ buffer' = deque_append(buffer, poll_frame[1], BufferSize)
    /\ polls' = polls + 1
    /\ poll_frame' = <<>>
    /\ worker_pc' = "top"
    /\ UNCHANGED <<conn, engine, stats, writer_pc, io_log, transportOther>>

\* ResultSender calls self._polling_engine._conn.db_write from the processing
\* thread: the test of _connected, which raises PLCConnectionError.
WriterCheck ==
    /\ is_running
    /\ writer_pc = "idle"
    /\ io_log.writes < MaxWrites
    /\ IF conn.connected
       THEN /\ writer_pc' = "io"
            /\ UNCHANGED io_log
       ELSE /\ writer_pc' = "idle"
            /\ io_log' = [io_log EXCEPT !.last = "write_failed", !.writes = @ + 1]
    /\ UNCHANGED <<conn, engine, worker_pc, stats, buffer, poll_frame, polls, transportOther>>

\* db_write: the client call and its except clause.
WriterIO ==
    /\ writer_pc = "io"
    /\ \E ok \in BOOLEAN :
          /\ conn' = [connected |-> connected_after_io(conn.connected, ok)]
          /\ io_log' = [io_log EXCEPT !.last = IF ok THEN "write_ok" ELSE "write_failed",
                                      !.writes = @ + 1]
    /\ writer_pc' = "idle"
    /\ UNCHANGED <<engine, worker_pc, stats, buffer, poll_frame, polls, transportOther>>

NextTransport ==
    \/ StartEngine
    \/ WorkerCheck
    \/ WorkerDisconnect
    \/ WorkerConnect
    \/ WorkerSleep
    \/ WorkerRead
    \/ WorkerAppend
    \/ WriterCheck
    \/ WriterIO

\* PollingEngine(plc_cfg, mode="s7") before start().
InitRealTransport ==
    /\ InitFSMs({IdleConfig}) /\ InitEngine /\ InitParts({TRUE}) /\ InitLoop
    /\ InitTransport(FALSE, FALSE, "none") /\ InitCallers /\ InitChecker /\ InitAux

SpecTransport == InitRealTransport /\ [][NextTransport]_vars

\* C19: whenever the engine has been started and the transport is not
\* connected, also after a failed connect inside start(), the polling worker
\* is running (and so goes on trying to reconnect).
C19_ReconnectLoop ==
    (engine.running /\ ~conn.connected) => is_running

\* C20: a failed db_read or db_write leaves the transport not connected; a
\* failed read of the worker adds exactly one to errors, appends no frame and
\* leaves total_polls alone; and the worker has been through _try_reconnect
\* between a failed read and its next read.
C20_FailedIOStep ==
    /\ (io_log'.writes = io_log.writes + 1 /\ io_log'.last = "write_failed") =>
          ~conn'.connected
    /\ (worker_pc = "read" /\ worker_pc' = "handler") =>
          /\ ~conn'.connected
          /\ stats'.errors = stats.errors + 1
          /\ buffer' = buffer
          /\ polls' = polls
          /\ poll_frame' = <<>>
    /\ worker_pc' = "read" => io_log'.reconnect_tried

C20_FailedIO == [][C20_FailedIOStep]_vars

\* After a failed read and a successful reconnect the worker is about to read
\* again, and a db_write has failed as well.
C20_Witness ==
    /\ worker_pc = "read"
    /\ stats.errors >= 1
    /\ stats.reconnects >= 1
    /\ io_log.last = "write_failed"
    /\ ~conn.connected

\* The worker performs a call on the transport: db_read, disconnect or connect.
WorkerTransportCall ==
    /\ worker_pc \in {"read", "reconnect", "handler", "reconnect_connect", "handler_connect"}
    /\ worker_pc' # worker_pc

\* C21: while a db_write of the result sender is inside the client call, the
\* polling worker performs no db_read, disconnect or connect on the transport.
C21_SerializedStep == writer_pc = "io" => ~WorkerTransportCall

C21_Serialized == [][C21_SerializedStep]_vars

\* C26: harvest() returns the accumulated CycleData and changes nothing, and
\* a repeated call returns the same data; reset() leaves the FSM in IDLE with
\* an empty CycleData and no last-pressure baseline, whatever its state was.
C26_HarvestResetStep ==
    \A c \in FsmUnderTest :
        /\ call'.op = "harvest" =>
              /\ fsm' = fsm
              /\ call'.result = <<fsm[c].data>>
              /\ call.op = "harvest" => call'.result = call.result
        /\ call'.op = "reset" =>
              /\ fsm'[c].state = "IDLE"
              /\ fsm'[c].data = CycleData(0)
              /\ fsm'[c].last_pressure = <<>>

C29_UpdateFrozenStep ==
    \A c \in FsmUnderTest :
        (call'.op = "update" /\ fsm[c].state \in {"PROCESSING", "FAULT"}) =>
            /\ fsm'[c].state = fsm[c].state
            /\ fsm'[c].data = fsm[c].data
            /\ fsm'[c].last_pressure = <<call'.frame[1].rt_pressure>>

C29_UpdateFrozen == [][C29_UpdateFrozenStep]_vars

\* A cabin in PROCESSING has been updated with a frame whose pressure is not
\* the last one collected: the baseline moved, the data did not.
C29_Witness ==
    \E c \in FsmUnderTest :
        /\ call.op = "update"
        /\ fsm[c].state = "PROCESSING"
        /\ point_count(fsm[c]) > 0
        /\ fsm[c].last_pressure = <<call.frame[1].rt_pressure>>
        /\ fsm[c].data.pressures[point_count(fsm[c])] # call.frame[1].rt_pressure

\* C28: every result the processing loop persisted has a label in {-1, 0, 1};
\* the label is 1 iff the model is loaded and the probability is at least the
\* threshold, 0 iff the model is loaded and the probability is below it, -1
\* iff the model is not loaded; the confidence is the probability for label 1,
\* one minus the probability for label 0, and both are zero for label -1.
C28_ResultShape ==
    \A i \in 1 .. Len(db) :
        LET r == db[i] IN
        /\ r.label \in {-1, 0, 1}
        /\ r.label = 1 <=> (model_loaded /\ r.probability >= Threshold)
        /\ r.label = 0 <=> (model_loaded /\ r.probability < Threshold)
        /\ r.label = -1 <=> ~model_loaded
        /\ r.label = 1 => r.confidence = r.probability
        /\ r.label = 0 => r.confidence = ProbOne - r.probability
        /\ r.label = -1 => (r.probability = 0 /\ r.confidence = 0)

\* C30: the watermark last_poll_ts never decreases: it changes only when the
\* frames of a drain have been fed, to the timestamp of the last frame
\* returned, which is greater than the watermark before; a drain that
\* returned no frame leaves it as it was.
C30_WatermarkStep ==
    /\ last_poll_ts' >= last_poll_ts
    /\ (loop_pc = "feed" /\ loop_pc' # "feed") =>
          /\ last_poll_ts' = frames[Len(frames)].timestamp
          /\ last_poll_ts' > last_poll_ts
    /\ ~(loop_pc = "feed" /\ loop_pc' # "feed") => last_poll_ts' = last_poll_ts

C30_Watermark == [][C30_WatermarkStep]_vars

\* The watermark has advanced past a frame that is still in the buffer, and
\* the drain that followed returned nothing.
C30_Witness ==
    /\ loop_pc = "ready"
    /\ last_poll_ts >= 2
    /\ frames = <<>>
    /\ since_drain = 0
    /\ \E i \in 1 .. Len(buffer) : buffer[i].timestamp < last_poll_ts
    /\ \A n \in 1 .. MaxPolls : fed[n] <= 1
    /\ \E n \in 1 .. MaxPolls : fed[n] = 0 /\ polls >= n

\* C22: start() called on a started engine has no effect (no worker is
\* spawned, connect is not called, nothing of the engine changes), so however
\* many times start() is called in a row there is one polling worker.
C22_StartIdempotentStep ==
    /\ (io_log'.starts = io_log.starts + 1 /\ engine.running) =>
          /\ engine' = engine
          /\ conn' = conn
          /\ worker_pc' = worker_pc
          /\ io_log'.spawned = io_log.spawned
    /\ io_log'.spawned = (IF engine'.thread = "alive" THEN 1 ELSE 0)

ReconnectIntervalS == 5
PollerJoinS == 5
CheckIntervalS == 60
HealthJoinS == 10

HealthWorker == "health-checker"

\* A sleep of the given duration that began before join(timeout) was called
\* is still going on when the join gives up.
can_outlast(duration, timeout) == duration > timeout

\* The polling worker is in a call that can keep it longer than the join
\* waits: a call on the snap7 client blocks for as long as the network makes
\* it, a reconnect sleep lasts reconnect_interval_s.
worker_outlasts_join(pc) ==
    \/ pc \in {"read", "reconnect_connect", "handler_connect"}
    \/ pc = "sleep" /\ can_outlast(ReconnectIntervalS, PollerJoinS)

\* The health worker is in time.sleep(self._interval) for longer than the join waits.
health_outlasts_join(pc) == pc = "sleep" /\ can_outlast(CheckIntervalS, HealthJoinS)

lifeOther ==
    <<fsmVars, pollVars, lock, drainVars, pipeVars, stats, writer_pc, io_log, caller,
      rep_log, checker, store, shut, auxVars>>

\* _poll_loop: "while self._running" is false, the thread ends.
WorkerExit ==
    /\ engine.thread = "alive"
    /\ worker_pc = "top"
    /\ ~engine.running
    /\ engine' = [engine EXCEPT !.thread = "exited"]
    /\ UNCHANGED <<conn, worker_pc, life, lifeOther>>

\* PollingEngine.stop: self._running = False.
StopClear ==
    /\ life.pstop.pc = "idle"
    /\ engine.running
    /\ engine' = [engine EXCEPT !.running = FALSE]
    /\ life' = [life EXCEPT !.pstop.pc = "join"]
    /\ UNCHANGED <<conn, worker_pc, lifeOther>>

\* self._thread.join(timeout=5): returns when the thread has ended, or after
\* five seconds.
StopJoin ==
    /\ life.pstop.pc = "join"
    /\ engine.thread # "alive" \/ worker_outlasts_join(worker_pc)
    /\ life' = [life EXCEPT !.pstop.pc = "disconnect",
                            !.pstop.timed_out = (engine.thread = "alive")]
    /\ UNCHANGED <<conn, engine, worker_pc, lifeOther>>

\* self._conn.disconnect(), and stop() returns.
StopDisconnect ==
    /\ life.pstop.pc = "disconnect"
    /\ conn' = [connected |-> FALSE]
    /\ life' = [life EXCEPT !.pstop.pc = "returned", !.pstop.polls = polls]
    /\ UNCHANGED <<engine, worker_pc, lifeOther>>

\* HealthChecker.start (enabled): the flag is set and the thread started.
HealthStart ==
    /\ life.hc.thread = "none"
    /\ life' = [life EXCEPT !.hc = [running |-> TRUE, thread |-> "alive", pc |-> "top",
                                    iter |-> 0]]
    /\ UNCHANGED <<conn, engine, worker_pc, reporter, lifeOther>>

\* One probe after the other, nobody else being in the FaultReporter.
RECURSIVE run_probes(_, _, _, _)
run_probes(r, i, disk, size_mb) ==
    IF i > Len(Probes) THEN r
    ELSE LET name == Probes[i]
             ok == probe_ok(name, probe_reading(name, disk, size_mb))
             next == IF name = "disk_space" /\ disk = "error" THEN r
                     ELSE IF ok THEN resolve_fault(r, ProbeCode[name])
                     ELSE raise_fault(r, ProbeCode[name])
         IN  run_probes(next, i + 1, disk, size_mb)

\* HealthChecker._loop: "while self._running", then run_all_checks inside
\* try/except; when the flag is down the thread ends.
HealthLoopRun ==
    /\ life.hc.thread = "alive"
    /\ life.hc.pc = "top"
    /\ IF life.hc.running
       THEN /\ life.hc.iter < MaxRuns
            /\ \E disk \in DiskOutcomes : \E size_mb \in DbSizesMb :
                  reporter' = run_probes(reporter, 1, disk, size_mb)
            /\ life' = [life EXCEPT !.hc.pc = "sleep", !.hc.iter = @ + 1]
       ELSE /\ life' = [life EXCEPT !.hc.thread = "exited"]
            /\ UNCHANGED reporter
    /\ UNCHANGED <<fsmVars, pollVars, lock, drainVars, loopVars, histVars, model_loaded, db,
                   plc_result, leak_alarms, last_inference_ms, transportVars, caller,
                   rep_log, checker, store, shut, auxVars>>

\* time.sleep(self._interval) is over.
HealthWake ==
    /\ life.hc.thread = "alive"
    /\ life.hc.pc = "sleep"
    /\ life' = [life EXCEPT !.hc.pc = "top"]
    /\ UNCHANGED <<conn, engine, worker_pc, lifeOther>>

\* HealthChecker.stop: self._running = False.
HealthStopClear ==
    /\ life.hstop.pc = "idle"
    /\ life.hc.running
    /\ life' = [life EXCEPT !.hc.running = FALSE, !.hstop.pc = "join"]
    /\ UNCHANGED <<conn, engine, worker_pc, lifeOther>>

\* self._thread.join(timeout=10), and stop() returns.
HealthStopJoin ==
    /\ life.hstop.pc = "join"
    /\ life.hc.thread # "alive" \/ health_outlasts_join(life.hc.pc)
    /\ life' = [life EXCEPT !.hstop.pc = "returned",
                            !.hstop.timed_out = (life.hc.thread = "alive")]
    /\ UNCHANGED <<conn, engine, worker_pc, lifeOther>>

NextLifecycle ==
    \/ WorkerCheck
    \/ WorkerDisconnect
    \/ WorkerConnect
    \/ WorkerSleep
    \/ WorkerRead
    \/ WorkerAppend
    \/ WorkerExit
    \/ StopClear
    \/ StopJoin
    \/ StopDisconnect
    \/ HealthStart
    \/ HealthLoopRun
    \/ HealthWake
    \/ HealthStopClear
    \/ HealthStopJoin

\* The engine has been started on the real transport and is connected.
InitLifecycle ==
    /\ InitFSMs({IdleConfig}) /\ InitEngine /\ InitParts({TRUE}) /\ InitLoop
    /\ InitTransport(TRUE, TRUE, "alive") /\ InitCallers /\ InitChecker /\ InitAux

SpecLifecycle == InitLifecycle /\ [][NextLifecycle]_vars

\* C23: once stop() of the polling engine has returned, is_running is false,
\* the transport is not connected, and no frame has been appended since.
C23_AfterStop ==
    life.pstop.pc = "returned" =>
        /\ ~is_running
        /\ ~conn.connected
        /\ polls = life.pstop.polls

\* C24: a worker starts no iteration once its flag is cleared, and when the
\* join of stop() returns the worker has ended, whatever it was doing when
\* stop() was called.
C24_WorkersExit ==
    /\ life.pstop.pc \in {"disconnect", "returned"} => engine.thread # "alive"
    /\ life.hstop.pc = "returned" => life.hc.thread # "alive"

\* ------------------------------------------------------------- shutdown
\* Mutant: the record store is closed first.
_shutdown_close_first ==
    <<"db_logger.close", "proc_loop.stop", "health_checker.stop", "api_server.stop",
      "polling_engine.stop">>

\* _shutdown: the calls it makes, in order, before sys.exit(0).
_shutdown ==
    <<"proc_loop.stop", "health_checker.stop", "api_server.stop", "polling_engine.stop",
      "db_logger.close">>

shutOther ==
    <<fsmVars, pollVars, lock, drainVars, pipeVars, worker_pc, stats, writer_pc, io_log,
      caller, rep_log, checker, auxVars>>

\* SIGINT or SIGTERM: signal_handler runs _shutdown in the main thread, which
\* is in the main loop.
Signal ==
    /\ shut.process = "running"
    /\ shut.pc["main"] = 0
    /\ ~shut.in_finally
    /\ shut' = [shut EXCEPT !.pc["main"] = 1]
    /\ UNCHANGED <<conn, engine, life, store, shutOther>>

\* Command q: the command thread runs _shutdown.
QuitCommand ==
    /\ shut.process = "running"
    /\ shut.pc["cmd-ctrl"] = 0
    /\ shut' = [shut EXCEPT !.pc["cmd-ctrl"] = 1]
    /\ UNCHANGED <<conn, engine, life, store, shutOther>>

\* "while proc_loop.is_running" is false: the finally clause runs _shutdown.
MainLoopExit ==
    /\ shut.process = "running"
    /\ shut.pc["main"] = 0
    /\ ~shut.in_finally
    /\ ~shut.loop_running
    /\ shut' = [shut EXCEPT !.pc["main"] = 1, !.in_finally = TRUE]
    /\ UNCHANGED <<conn, engine, life, store, shutOther>>

\* The next call of _shutdown: each stop() clears its flag (the joins are
\* bounded), polling_engine.stop() disconnects, close() closes the store.
ShutdownCall(t) ==
    /\ shut.process = "running"
    /\ shut.pc[t] \in 1 .. Len(_shutdown)
    /\ LET c == _shutdown[shut.pc[t]] IN
          /\ shut' = [shut EXCEPT !.pc[t] = @ + 1,
                                  !.calls = Append(@, [thread |-> t, call |-> c]),
                                  !.loop_running = IF c = "proc_loop.stop" THEN FALSE ELSE @]
          /\ life' = IF c = "health_checker.stop"
                     THEN [life EXCEPT !.hc.running = FALSE, !.hstop.pc = "returned"]
                     ELSE life
          /\ engine' = IF c = "polling_engine.stop"
                       THEN [engine EXCEPT !.running = FALSE] ELSE engine
          /\ conn' = IF c = "polling_engine.stop" THEN [connected |-> FALSE] ELSE conn
          /\ store' = IF c = "db_logger.close" THEN [store EXCEPT !.open = FALSE] ELSE store
    /\ UNCHANGED shutOther

\* sys.exit(0): SystemExit ends the command thread; raised in the main thread
\* inside the try block it runs the finally clause, raised in the finally
\* clause it ends the process.
ShutdownExit(t) ==
    /\ shut.process = "running"
    /\ shut.pc[t] = Len(_shutdown) + 1
    /\ shut' = IF t = "cmd-ctrl" THEN [shut EXCEPT !.pc[t] = Len(_shutdown) + 2]
               ELSE IF shut.in_finally THEN [shut EXCEPT !.process = "exited"]
               ELSE [shut EXCEPT !.pc[t] = 1, !.in_finally = TRUE]
    /\ UNCHANGED <<conn, engine, life, store, shutOther>>

NextShutdown ==
    \/ Signal
    \/ QuitCommand
    \/ MainLoopExit
    \/ \E t \in ShutdownThreads : ShutdownCall(t)
    \/ \E t \in ShutdownThreads : ShutdownExit(t)

SpecShutdown == InitLifecycle /\ [][NextShutdown]_vars

\* Thread t made call c before position i of the calls.
CalledBefore(t, c, i) ==
    \E j \in 1 .. (i - 1) : shut.calls[j] = [thread |-> t, call |-> c]

\* C25: whenever the record store is closed, the thread that closes it has
\* stopped the processing loop, then the health checker, then the polling
\* engine, on every path into _shutdown.
C25_ShutdownOrder ==
    /\ \A i \in 1 .. Len(shut.calls) :
          shut.calls[i].call = "db_logger.close" =>
              \E j1, j2, j3 \in 1 .. (i - 1) :
                  /\ j1 < j2 /\ j2 < j3
                  /\ shut.calls[j1] = [thread |-> shut.calls[i].thread, call |-> "proc_loop.stop"]
                  /\ shut.calls[j2] = [thread |-> shut.calls[i].thread,
                                       call |-> "health_checker.stop"]
                  /\ shut.calls[j3] = [thread |-> shut.calls[i].thread,
                                       call |-> "polling_engine.stop"]
    /\ ~store.open => (~shut.loop_running /\ ~life.hc.running /\ ~engine.running)

\* The command thread and the main thread have both run _shutdown to the
\* end, and the process has exited.
C25_Witness ==
    /\ shut.process = "exited"
    /\ ~store.open
    /\ \E i, j \in 1 .. Len(shut.calls) :
          /\ shut.calls[i] = [thread |-> "cmd-ctrl", call |-> "db_logger.close"]
          /\ shut.calls[j] = [thread |-> "main", call |-> "db_logger.close"]

\* ------------------------------------------------------------- the record store
\* store.rows are the ids of the table in insertion order, store.seq is
\* sqlite_sequence (AUTOINCREMENT), store.cur[t] the lastrowid of t's cursor.
storeOther ==
    <<fsmVars, pollVars, lock, drainVars, pipeVars, transportVars, caller, rep_log, checker,
      life, shut, auxVars>>

\* Mutant: log_record and count_records do not wait for the lock.
store_lock_ignored(holder) == TRUE

\* "with self._lock" is entered when no thread holds the lock.
store_lock_acquired(holder) == holder = "none"

\* log_record: with self._lock entered.
LogEnter(t) ==
    /\ store.pc[t] = "idle"
    /\ store.calls < MaxLogCalls
    /\ store_lock_acquired(store.holder)
    /\ store' = [store EXCEPT !.holder = t, !.pc[t] = "locked", !.calls = @ + 1]
    /\ UNCHANGED storeOther

\* self._conn.execute(INSERT ...) and commit(): the row gets the next
\* AUTOINCREMENT id, or the statement fails and nothing is inserted.
LogInsert(t) ==
    /\ store.pc[t] = "locked"
    /\ \E ok \in BOOLEAN :
          store' = IF ok
                   THEN [store EXCEPT !.seq = @ + 1, !.rows = Append(@, store.seq + 1),
                                      !.cur[t] = store.seq + 1, !.pc[t] = "inserted"]
                   ELSE [store EXCEPT !.pc[t] = "failed"]
    /\ UNCHANGED storeOther

\* return cur.lastrowid, or raise StorageError; the lock is released.
LogReturn(t) ==
    /\ store.pc[t] \in {"inserted", "failed"}
    /\ store' = [store EXCEPT
                    !.holder = "none", !.pc[t] = "idle",
                    !.returned = IF store.pc[t] = "inserted" THEN Append(@, store.cur[t]) ELSE @,
                    !.successes = IF store.pc[t] = "inserted" THEN @ + 1 ELSE @]
    /\ UNCHANGED storeOther

\* count_records: SELECT COUNT(*) under the lock.
CountRecords ==
    /\ store_lock_acquired(store.holder)
    /\ store' = [store EXCEPT !.counted = <<[count |-> Len(store.rows),
                                             successes |-> store.successes]>>]
    /\ UNCHANGED storeOther

NextStore ==
    \/ \E t \in Loggers : LogEnter(t)
    \/ \E t \in Loggers : LogInsert(t)
    \/ \E t \in Loggers : LogReturn(t)
    \/ CountRecords

SpecStore == InitLifecycle /\ [][NextStore]_vars

C31_HandleFaultStep ==
    /\ (loop_pc = "fault" /\ faulted # <<>> /\ faulted' = Tail(faulted)) =>
          /\ fsm[Head(faulted)].state = "FAULT"
          /\ "F009" \in ActiveCodes(reporter')
          /\ fsm'[Head(faulted)] = NewCabinFSM
    /\ loop_pc' = "fault" =>
          \A c \in Cabins :
              fsm'[c].state = "FAULT" =>
                  \E i \in 1 .. Len(faulted') : faulted'[i] = c

C31_HandleFault == [][C31_HandleFaultStep]_vars

\* A cabin that collected points and timed out has been cleared in this
\* iteration, and F009 is active.
C31_Witness ==
    /\ loop_pc = "fault"
    /\ faulted = <<>>
    /\ "F009" \in ActiveCodes(reporter)
    /\ \E c \in Cabins :
          /\ HasEvent(c, "clear_fault")
          /\ fsm[c] = NewCabinFSM
          /\ fed_ts[c] > 0

\* ------------------------------------------------------------- pause and resume
\* run_once: "if not self._running or self._paused" sleeps and returns.
run_once_idles(running, paused) == ~running \/ paused

\* The first statement of run_once.  An idle iteration goes straight to the
\* sleep; any other begins _feed_fsm's drain, and ctl.resumed tells that the
\* iteration before this one idled.
RunOnceEnter ==
    /\ loop_pc = "start"
    /\ IF run_once_idles(shut.loop_running, ctl.paused)
       THEN /\ loop_pc' = "sleep"
            /\ ctl' = [ctl EXCEPT !.idled = TRUE, !.resumed = FALSE]
            /\ UNCHANGED <<lock, drainVars, since_drain, overrun>>
       ELSE /\ DrainEnter(last_poll_ts)
            /\ loop_pc' = "drain"
            /\ overrun' = (overrun \/ since_drain >= BufferSize)
            /\ since_drain' = 0
            /\ ctl' = [ctl EXCEPT !.idled = FALSE, !.resumed = ctl.idled]
    /\ UNCHANGED <<fsmVars, pollVars, last_poll_ts, frames, ready, faulted,
                   partVars, events, found, result, fed, fed_ts>>
    /\ UNCHANGED <<transportVars, caller, rep_log, checker, life, store, shut, sender, pusher, cbs>>

\* The command thread: "e" calls pause(), "s" calls resume().
LoopPause ==
    /\ ~ctl.paused
    /\ ctl' = [ctl EXCEPT !.paused = TRUE]
    /\ UNCHANGED <<fsmVars, nonFsmVars, transportVars, caller, rep_log, checker,
                   life, store, shut, sender, pusher, cbs>>

LoopResume ==
    /\ ctl.paused
    /\ ctl' = [ctl EXCEPT !.paused = FALSE]
    /\ UNCHANGED <<fsmVars, nonFsmVars, transportVars, caller, rep_log, checker,
                   life, store, shut, sender, pusher, cbs>>

\* ProcessingLoop.stop(), called by _shutdown.
LoopStop ==
    /\ shut.loop_running
    /\ shut' = [shut EXCEPT !.loop_running = FALSE]
    /\ UNCHANGED <<fsmVars, nonFsmVars, transportVars, caller, rep_log, checker,
                   life, store, auxVars>>

\* main: "while proc_loop.is_running: proc_loop.run_once()".
LoopSleepRunning == shut.loop_running /\ LoopSleep

\* _process_cabin when inference, insert and write-back all succeed.
LoopProcessCabinOk ==
    /\ LoopProcessCabin
    /\ \A i \in 1 .. Len(events') : events'[i].raised = "none"

NextPause ==
    \/ PipePoll
    \/ PipeAppend
    \/ RunOnceEnter
    \/ LoopDrainIter
    \/ LoopDrainExit
    \/ LoopDrained
    \/ LoopFeedFrame
    \/ LoopGetReady
    \/ LoopProcessCabinOk
    \/ LoopGetFaulted
    \/ LoopHandleFault
    \/ LoopFaultsDone
    \/ LoopSleepRunning
    \/ LoopPause
    \/ LoopResume
    \/ LoopStop

InitPause ==
    InitFSMs(PipelineConfigs) /\ InitEngine /\ InitParts({TRUE}) /\ InitLoop /\ InitExt

SpecPause == InitPause /\ [][NextPause]_vars

\* q is p with some entries left out.
RECURSIVE IsSubSeq(_, _)
IsSubSeq(q, p) ==
    IF q = <<>> THEN TRUE
    ELSE IF p = <<>> THEN FALSE
    ELSE IF Head(q) = Head(p) THEN IsSubSeq(Tail(q), Tail(p))
    ELSE IsSubSeq(q, Tail(p))

\* An idle iteration leaves the watermark, the FSMs, the record store, the
\* write-back word and the drain alone.
C32_IdleStep ==
    (loop_pc = "start" /\ run_once_idles(shut.loop_running, ctl.paused)
        /\ loop_pc' # "start") =>
        /\ loop_pc' = "sleep"
        /\ UNCHANGED <<last_poll_ts, fsm, db, plc_result, buffer, drainVars, frames>>

\* The first drain after idle iterations returns, in buffer order, every
\* buffered frame that was never passed to the FSMs.
C32_DrainAfterResume ==
    (loop_pc = "drain" /\ drain_pc = "done" /\ ctl.resumed) =>
        /\ IsSubSeq(drain_out, drain_seen)
        /\ \A i \in 1 .. Len(drain_seen) :
              fed[drain_seen[i].seq] = 0 =>
                  \E j \in 1 .. Len(drain_out) : drain_out[j] = drain_seen[i]

\* C32: an iteration of run_once that finds the loop paused or not running
\* changes neither the watermark nor any FSM nor the record store nor the
\* write-back word; the frames appended meanwhile and still in the ring buffer
\* are drained in order by the first iteration after resume.
C32_PausedStep == C32_IdleStep /\ C32_DrainAfterResume

C32_Paused == [][C32_PausedStep]_vars

C32_IdleOnly == [][C32_IdleStep]_vars

\* ------------------------------------------------------------- ResultSender
\* write_back.db_number and write_back.byte_offset (defaults).
WbDb == 9
WbOffset == 200

Int16Min == -32768
Int16Max == 32767

\* Mutant: the low byte first.
pack_int16_le(v) ==
    IF v < Int16Min \/ v > Int16Max THEN <<>>
    ELSE LET u == IF v >= 0 THEN v ELSE v + 65536 IN <<u % 256, u \div 256>>

\* struct.pack(">h", v): two's complement, the high byte first; <<>> stands
\* for struct.error (v is not an int16).
pack_int16_be(v) ==
    IF v < Int16Min \/ v > Int16Max THEN <<>>
    ELSE LET u == IF v >= 0 THEN v ELSE v + 65536 IN <<u \div 256, u % 256>>

\* The labels _process_cabin passes, and probabilities in hundredths: those of
\* a classifier, and values below 0 and above 1.
SenderLabels == {-1, 0, 1}
SenderProbabilities == (-ProbOne) .. (2 * ProbOne)

senderOther ==
    <<fsmVars, nonFsmVars, transportVars, caller, rep_log, checker, life, store, shut, ctl,
      pusher, cbs>>

\* write_result(label, probability) is called.
SenderCall ==
    /\ sender.pc = "idle"
    /\ \E label \in SenderLabels : \E probability \in SenderProbabilities :
          sender' = [pc |-> "called", label |-> label, probability |-> probability,
                     writes |-> <<>>, raised |-> "none"]
    /\ UNCHANGED senderOther

\* The body of write_result: the value, struct.pack, db_write.  db_write may
\* raise; whatever is raised leaves as PLCWriteError.
SenderWrite ==
    /\ sender.pc = "called"
    /\ LET data == pack_int16_be(write_result_value(sender.label, sender.probability)) IN
          IF data = <<>>
          THEN sender' = [sender EXCEPT !.pc = "returned", !.raised = "PLCWriteError"]
          ELSE \E ok \in BOOLEAN :
                  sender' = [sender EXCEPT
                               !.pc = "returned",
                               !.writes = Append(@, [db |-> WbDb, offset |-> WbOffset,
                                                     data |-> data]),
                               !.raised = IF ok THEN "none" ELSE "PLCWriteError"]
    /\ UNCHANGED senderOther

NextSender == SenderCall \/ SenderWrite

SpecSender == Init /\ [][NextSender]_vars

\* k is what is left of n / d when the digits after the point are dropped.
IsTruncation(k, n, d) ==
    IF n >= 0 THEN k * d <= n /\ n < (k + 1) * d
    ELSE (k - 1) * d < n /\ n <= k * d

\* The int16 that the two bytes hold, the first byte being the high one.
unpack_int16_be(data) ==
    LET u == data[1] * 256 + data[2] IN IF u >= 32768 THEN u - 65536 ELSE u

\* C33: a call of write_result makes exactly one write, of two bytes at
\* (wb_db, wb_offset), that hold as a big-endian int16 the base plus the
\* product of probability and scale without its fraction when the label is 1,
\* and the base for the labels 0 and -1.
C33_WriteResult ==
    sender.pc = "returned" =>
        /\ Len(sender.writes) = 1
        /\ sender.writes[1].db = WbDb
        /\ sender.writes[1].offset = WbOffset
        /\ Len(sender.writes[1].data) = 2
        /\ \A i \in 1 .. 2 : sender.writes[1].data[i] \in 0 .. 255
        /\ LET v == unpack_int16_be(sender.writes[1].data) IN
              IF sender.label = 1
              THEN IsTruncation(v - WbBase, sender.probability * WbScale, ProbOne)
              ELSE v = WbBase

\* A write for label 1 with a probability below zero whose product with the
\* scale has a fraction: the value written is the base, not one less.
C33_Witness ==
    /\ sender.pc = "returned"
    /\ sender.label = 1
    /\ sender.probability = -5
    /\ sender.writes = <<[db |-> WbDb, offset |-> WbOffset, data |-> <<0, 0>>]>>

\* ------------------------------------------------------------- AlarmPusher
pusherOther ==
    <<fsmVars, nonFsmVars, transportVars, caller, rep_log, checker, life, store, shut, ctl,
      sender, cbs>>

\* What the worker did: a POST to target t and its outcome, a one-second
\* sleep, the "exhausted" error line.
Post(t, n, outcome) == [ev |-> "post", target |-> t, attempt |-> n, outcome |-> outcome]
Slept(t) == [ev |-> "sleep", target |-> t, attempt |-> 0, outcome |-> "none"]
Exhausted(t) == [ev |-> "exhausted", target |-> t, attempt |-> 0, outcome |-> "none"]

\* A response below 300, a response from 300 up, an exception of httpx.post.
PostOutcomes == {"ok", "status", "exception"}

\* push_alarm(fault_code, message, level): returns at once when disabled or
\* when the level is below the minimum; otherwise starts the alarm-push thread.
PushAlarm ==
    /\ pusher.pc = "idle"
    /\ \E level \in {"WARNING", "ERROR"} :
          pusher' = [pusher EXCEPT
                       !.level = level,
                       !.pc = IF AlarmCfg.enabled /\ should_push(level)
                              THEN "target" ELSE "not_pushed",
                       !.target = 1]
    /\ UNCHANGED pusherOther

\* Mutant: the first attempt is made whatever retries is.
first_attempt_always(retries) == TRUE

\* "for attempt in range(1, retries + 1)" has a first pass.
first_attempt(retries) == 1 <= retries

\* _send_to_all: the next target, and the head of _send_with_retry's loop.
PusherNextTarget ==
    /\ pusher.pc = "target"
    /\ IF pusher.target > Len(pusher.targets)
       THEN pusher' = [pusher EXCEPT !.pc = "done"]
       ELSE IF first_attempt(pusher.targets[pusher.target])
       THEN pusher' = [pusher EXCEPT !.pc = "attempt", !.attempt = 1]
       ELSE pusher' = [pusher EXCEPT !.log = Append(@, Exhausted(pusher.target)),
                                     !.target = @ + 1]
    /\ UNCHANGED pusherOther

\* One pass of the loop: httpx.post, "if resp.status_code < 300: return",
\* "except Exception", and either the sleep or the end of the loop.
PusherAttempt ==
    /\ pusher.pc = "attempt"
    /\ \E outcome \in PostOutcomes :
          LET t == pusher.target
              posted == Append(pusher.log, Post(t, pusher.attempt, outcome))
          IN  IF outcome = "ok"
              THEN pusher' = [pusher EXCEPT !.log = posted, !.target = @ + 1,
                                            !.pc = "target"]
              ELSE IF pusher.attempt < pusher.targets[t]
              THEN pusher' = [pusher EXCEPT !.log = posted, !.pc = "sleep"]
              ELSE pusher' = [pusher EXCEPT !.log = Append(posted, Exhausted(t)),
                                            !.target = @ + 1, !.pc = "target"]
    /\ UNCHANGED pusherOther

\* time.sleep(1), and the next pass.
PusherSleep ==
    /\ pusher.pc = "sleep"
    /\ pusher' = [pusher EXCEPT !.log = Append(@, Slept(pusher.target)),
                                !.attempt = @ + 1, !.pc = "attempt"]
    /\ UNCHANGED pusherOther

NextPusher == PushAlarm \/ PusherNextTarget \/ PusherAttempt \/ PusherSleep

InitPusherAlone ==
    /\ InitFSMs(PipelineConfigs) /\ InitEngine /\ InitParts({TRUE}) /\ InitLoop
    /\ InitTransport(TRUE, TRUE, "alive") /\ InitCallers /\ InitChecker /\ InitLife
    /\ InitPusher(PusherTargets) /\ InitCallbacks({<<"returns">>})

SpecPusher == InitPusherAlone /\ [][NextPusher]_vars

\* The worker's log entries for target t, in order.
RECURSIVE LogOf(_, _)
LogOf(log, t) ==
    IF log = <<>> THEN <<>>
    ELSE (IF Head(log).target = t THEN <<Head(log)>> ELSE <<>>) \o LogOf(Tail(log), t)

PostsOf(log, t) == { i \in 1 .. Len(log) : log[i].ev = "post" /\ log[i].target = t }

\* C34: when the worker of a pushed alarm has ended, each target got at least
\* one and at most `retries` POSTs, numbered from 1; only the last of them may
\* have been answered below 300; a sleep follows every POST but the last one
\* and nothing else; the targets were served one after the other; the
\* "exhausted" line is the only trace of a dispatch without success, and
\* push_alarm raised nothing.
C34_Dispatch ==
    pusher.pc = "done" =>
        /\ pusher.raised = "none"
        /\ \A i \in 1 .. Len(pusher.log) - 1 :
              pusher.log[i].target <= pusher.log[i + 1].target
        /\ \A t \in 1 .. Len(pusher.targets) :
              LET l == LogOf(pusher.log, t)
                  n == Cardinality(PostsOf(pusher.log, t))
                  ok == \E i \in 1 .. Len(l) : l[i].outcome = "ok"
              IN  /\ n >= 1
                  /\ n <= pusher.targets[t]
                  /\ \A i \in 1 .. n :
                        /\ l[2 * i - 1].ev = "post"
                        /\ l[2 * i - 1].attempt = i
                        /\ l[2 * i - 1].outcome = "ok" => i = n
                        /\ i < n => l[2 * i].ev = "sleep"
                  /\ Len(l) = IF ok THEN 2 * n - 1 ELSE 2 * n
                  /\ ~ok => l[Len(l)].ev = "exhausted"

\* ------------------------------------------------------------- fault callbacks
\* Up to three registered callbacks.
MaxCallbacks == 3
CallbackLists ==
    UNION { [1 .. n -> {"returns", "raises"}] : n \in 1 .. MaxCallbacks }

\* Mutant: the first callback that raises ends the loop.
RECURSIVE notify_until_failure(_, _)
notify_until_failure(callbacks, invoked) ==
    IF Len(invoked) = Len(callbacks) THEN invoked
    ELSE IF callbacks[Len(invoked) + 1] = "raises"
    THEN Append(invoked, 1) \o [i \in 1 .. (Len(callbacks) - Len(invoked) - 1) |-> 0]
    ELSE notify_until_failure(callbacks, Append(invoked, 1))

\* "for cb in self._on_fault_callbacks: try: cb(event) except Exception": the
\* number of times each callback was invoked.  A callback that raises has been
\* invoked; the handler logs the exception and the loop goes on.
RECURSIVE notify(_, _)
notify(callbacks, invoked) ==
    IF Len(invoked) = Len(callbacks) THEN invoked
    ELSE notify(callbacks, Append(invoked, 1))

cbsOther ==
    <<fsmVars, pollVars, lock, drainVars, loopVars, histVars, model_loaded, db, plc_result,
      leak_alarms, last_inference_ms, transportVars, caller, checker, life, store, shut,
      ctl, sender, pusher>>

\* raise_fault(code) with the registered callbacks.
RaiseFaultNotify ==
    /\ rep_log.calls < MaxFaultCalls
    /\ \E code \in FaultCodesUnderTest :
          /\ reporter' = raise_fault(reporter, code)
          /\ rep_log' = [rep_log EXCEPT
                            !.last[code] = "raise",
                            !.activations = IF rep_log.last[code] = "raise" THEN @ ELSE @ + 1,
                            !.calls = @ + 1]
          /\ cbs' = [cbs EXCEPT
                       !.code = code,
                       !.activated = code \notin ActiveCodes(reporter),
                       !.invoked = IF code \notin ActiveCodes(reporter)
                                   THEN notify(cbs.registered, <<>>)
                                   ELSE [i \in 1 .. Len(cbs.registered) |-> 0],
                       !.returned = TRUE,
                       !.raised = "none"]
    /\ UNCHANGED cbsOther

NextCallbacks == RaiseFaultNotify \/ CallResolveFault

InitCallbacksAlone ==
    /\ InitFSMs({IdleConfig}) /\ InitEngine /\ InitParts({TRUE}) /\ InitLoop
    /\ InitTransport(TRUE, TRUE, "alive") /\ InitCallers /\ InitChecker /\ InitLife
    /\ InitPusher({[t \in 1 .. 2 |-> MaxRetries]}) /\ InitCallbacks(CallbackLists)

SpecCallbacks == InitCallbacksAlone /\ [][NextCallbacks]_vars

\* C35: a raise_fault call that activated its code, with callbacks that raise
\* among the registered ones, leaves the code active and in the history, has
\* invoked every registered callback exactly once, and returned its event.
C35_CallbackFailureStep ==
    (cbs' # cbs /\ cbs'.activated) =>
        /\ cbs'.code \in ActiveCodes(reporter')
        /\ Len(reporter'.history) = Len(reporter.history) + 1
        /\ reporter'.history[Len(reporter'.history)].code = cbs'.code
        /\ \A i \in 1 .. Len(cbs'.registered) : cbs'.invoked[i] = 1
        /\ Len(cbs'.invoked) = Len(cbs'.registered)
        /\ cbs'.returned
        /\ cbs'.raised = "none"

C35_CallbackFailure == [][C35_CallbackFailureStep]_vars

\* The first of three callbacks raised, and the two after it were invoked.
C35_Witness ==
    /\ cbs.registered = <<"raises", "returns", "returns">>
    /\ cbs.activated
    /\ cbs.invoked = <<1, 1, 1>>
    /\ cbs.code \in ActiveCodes(reporter)
    /\ cbs.returned

\* ------------------------------------------------------------- the loop keeps running
\* main calls run_once again and again, and the polling worker keeps polling
\* while it has polls left: every step of either that stays possible is taken.
LoopStep ==
    \/ LoopDrain
    \/ LoopDrainIter
    \/ LoopDrainExit
    \/ LoopDrained
    \/ LoopFeedFrame
    \/ LoopGetReady
    \/ LoopProcessCabin
    \/ LoopGetFaulted
    \/ LoopHandleFault
    \/ LoopFaultsDone
    \/ LoopSleep

\* A poll whose time.time() is later than that of the poll before it.
PipePollLater ==
    /\ PipePoll
    /\ poll_frame'[1].timestamp = polls + 1

NextLive == PipePollLater \/ PipeAppend \/ LoopStep

InitLive ==
    InitFSMs(PipelineConfigs) /\ InitEngine /\ InitParts({TRUE}) /\ InitLoop /\ InitExt

SpecLive ==
    /\ InitLive
    /\ [][NextLive]_vars
    /\ WF_vars(LoopStep)
    /\ WF_vars(PipePollLater \/ PipeAppend)

\* C36: while the loop runs, a cabin whose FSM is in PROCESSING or FAULT is
\* eventually back in IDLE, whatever inference, insert and write-back failures
\* occur for it or for another cabin.
C36_BackToIdle ==
    \A c \in Cabins :
        (fsm[c].state \in {"PROCESSING", "FAULT"}) ~> (fsm[c].state = "IDLE")

\* ------------------------------------------------------------- any thresholds
\* Thresholds at and around their lowest values: no minimum of points, a
\* maximum of 0, 1 or 3 points, a maximum duration of 0 or 2, and a timeout
\* below, at and above the maximum duration.
AnyConfigs ==
    { [start_pressure_drop |-> 2, end_pressure_rise |-> 1,
       min_collection_points |-> mn, max_collection_points |-> mx,
       max_collection_duration_s |-> d, collection_timeout_s |-> t]
      : mn \in {0, 2}, mx \in {0, 1, 3}, d \in {0, 2}, t \in {0, 1, 2, 3} }

InitUpdates ==
    InitFSMs(AnyConfigs) /\ InitEngine /\ InitParts({TRUE}) /\ InitLoop /\ InitExt

\* A CabinFSM that only update, harvest, reset and clear_fault are called on.
NextUpdates == FsmUpdate \/ FsmHarvest \/ FsmReset \/ FsmClearFault

SpecUpdates == InitUpdates /\ [][NextUpdates]_vars

\* C37: whatever the thresholds, a CabinFSM in PROCESSING holds at least 2
\* points, so the data _process_cabin harvests never has fewer than 2.
C37_TwoPoints ==
    \A c \in Cabins :
        fsm[c].state = "PROCESSING" =>
            /\ point_count(fsm[c]) >= 2
            /\ Len(harvest(fsm[c]).pressures) >= 2

\* PROCESSING reached by the first update after the start, with a maximum of
\* at most one point and a maximum duration of 0.
C37_Witness ==
    \E c \in FsmUnderTest :
        /\ cfg.max_collection_points <= 1
        /\ cfg.max_collection_duration_s = 0
        /\ call.op = "update"
        /\ fsm[c].state = "PROCESSING"
        /\ point_count(fsm[c]) = 2

\* C38: with collection_timeout_s >= max_collection_duration_s no sequence of
\* update calls (with harvest, reset and clear_fault between them) puts a
\* CabinFSM in FAULT.
C38_NoTimeoutFault ==
    cfg.collection_timeout_s >= cfg.max_collection_duration_s =>
        \A c \in Cabins : fsm[c].state # "FAULT"

\* An update in COLLECTING whose elapsed time reached the timeout, with no
\* other end condition met than the maximum duration: PROCESSING.
C38_Witness ==
    \E c \in FsmUnderTest :
        /\ cfg.collection_timeout_s >= cfg.max_collection_duration_s
        /\ cfg.max_collection_points = 3
        /\ cfg.min_collection_points = 2
        /\ call.op = "update"
        /\ fsm[c].state = "PROCESSING"
        /\ point_count(fsm[c]) = 2
        /\ call.frame[1].rt_pressure <= fsm[c].data.pressures[1]
        /\ call.frame[1].timestamp - fsm[c].data.start_time >= cfg.collection_timeout_s

\* ------------------------------------------------------------- start() after stop()
\* start() called once stop() has returned: _running is False, so the call
\* sets it, connects, and stores a new plc-poller thread in self._thread.
\* connect() may raise, and then no thread is created.  The thread that
\* self._thread named is life.old when it has not ended.
RestartEngine ==
    /\ life.pstop.pc = "returned"
    /\ ~start_returns_early(engine.running)
    /\ \E ok \in BOOLEAN :
          /\ conn' = [connected |-> ok]
          /\ engine' = [running |-> TRUE, thread |-> IF ok THEN "alive" ELSE engine.thread]
          /\ worker_pc' = IF ok THEN "top" ELSE worker_pc
          /\ io_log' = [io_log EXCEPT !.last = IF ok THEN "started" ELSE "start_raised",
                                      !.starts = @ + 1,
                                      !.spawned = IF ok THEN @ + 1 ELSE @]
          /\ life' = [life EXCEPT
                        !.pstop.pc = "restarted",
                        !.old = IF ok /\ engine.thread = "alive"
                                THEN [alive |-> TRUE, pc |-> worker_pc, appends |-> 0]
                                ELSE @]
    /\ UNCHANGED <<fsmVars, pollVars, lock, drainVars, pipeVars, stats, writer_pc, caller,
                   rep_log, checker, store, shut, auxVars>>

\* The old worker's blocking call returns: a read gives a frame or raises, a
\* connect or a sleep ends; an exception ends the iteration.
OldWorkerResume ==
    /\ life.old.alive
    /\ life.old.pc \in {"read", "reconnect_connect", "handler_connect", "sleep"}
    /\ \E ok \in BOOLEAN :
          life' = [life EXCEPT !.old.pc = IF life.old.pc = "read" /\ conn.connected /\ ok
                                          THEN "append" ELSE "top"]
    /\ UNCHANGED <<conn, engine, worker_pc, lifeOther>>

\* The old worker: with self._lock: self._buffer.append(frame).
OldWorkerAppend ==
    /\ life.old.alive
    /\ life.old.pc = "append"
    /\ polls < MaxPolls
    /\ poller_lock_acquired(lock)
    /\ \E raw \in RestingReads : \E ts \in Timestamps :
          buffer' = deque_append(buffer, _parse_frame(raw, ts, polls + 1), BufferSize)
    /\ polls' = polls + 1
    /\ life' = [life EXCEPT !.old.pc = "top", !.old.appends = @ + 1]
    /\ UNCHANGED <<conn, engine, worker_pc, fsmVars, poll_pc, poll_frame, lock, drainVars,
                   pipeVars, stats, writer_pc, io_log, caller, rep_log, checker, store, shut,
                   auxVars>>

\* The old worker: "while self._running".
OldWorkerCheck ==
    /\ life.old.alive
    /\ life.old.pc = "top"
    /\ life' = IF engine.running
               THEN [life EXCEPT !.old.pc = "read"]
               ELSE [life EXCEPT !.old.alive = FALSE, !.old.pc = "none"]
    /\ UNCHANGED <<conn, engine, worker_pc, lifeOther>>

NextRestart ==
    \/ WorkerCheck
    \/ WorkerDisconnect
    \/ WorkerConnect
    \/ WorkerSleep
    \/ WorkerRead
    \/ WorkerAppend
    \/ WorkerExit
    \/ StopClear
    \/ StopJoin
    \/ StopDisconnect
    \/ RestartEngine
    \/ OldWorkerResume
    \/ OldWorkerAppend
    \/ OldWorkerCheck

SpecRestart == InitLifecycle /\ [][NextRestart]_vars

\* The plc-poller threads that have not ended.
AliveWorkers ==
    (IF engine.thread = "alive" THEN 1 ELSE 0) + (IF life.old.alive THEN 1 ELSE 0)

\* C39: over start() and stop() calls at most one polling worker is alive,
\* and only the worker that self._thread names appends to the ring buffer.
C39_OneWorker ==
    /\ AliveWorkers <= 1
    /\ life.old.appends = 0

\* ------------------------------------------------------------- the loop and the health worker
\* The processing loop and the polling worker with the health worker running
\* its probes on the same FaultReporter.
NextFaults ==
    \/ PipePollLater
    \/ PipeAppend
    \/ LoopStep
    \/ HealthStart
    \/ HealthLoopRun
    \/ HealthWake

SpecFaults == InitLive /\ [][NextFaults]_vars

\* The active event of a code (the code is active).
ActiveEvent(r, code) ==
    r.active_faults[CHOOSE i \in 1 .. Len(r.active_faults) : r.active_faults[i].code = code]

\* This step is _process_cabin with a log_record call that raised.
InsertFailureStep ==
    /\ loop_pc = "process"
    /\ ready # <<>>
    /\ Len(events') > Len(events)
    /\ \E i \in (Len(events) + 1) .. Len(events') :
          events'[i] = Raised(Head(ready), "log_record", "StorageError")

\* C40: once F006 is active it is active after every step of the loop and of
\* the health worker, successful inserts and probe runs included, and a later
\* insert failure refreshes its event, adds nothing to the history and invokes
\* no callback.
C40_F006StaysStep ==
    "F006" \in ActiveCodes(reporter) =>
        /\ "F006" \in ActiveCodes(reporter')
        /\ InsertFailureStep =>
              /\ ActiveEvent(reporter', "F006").refreshed
              /\ reporter'.history =
                    [i \in 1 .. Len(reporter.history) |->
                        IF reporter.history[i].code = "F006"
                        THEN [reporter.history[i] EXCEPT !.refreshed = TRUE]
                        ELSE reporter.history[i]]
              /\ reporter'.notified = reporter.notified

C40_F006Stays == [][C40_F006StaysStep]_vars

\* Two insert failures and a probe run: F006 is active with its timestamp
\* refreshed, once in the history.
C40_Witness ==
    /\ "F006" \in ActiveCodes(reporter)
    /\ ActiveEvent(reporter, "F006").refreshed
    /\ life.hc.iter >= 1
    /\ Cardinality({ i \in 1 .. Len(reporter.history) : reporter.history[i].code = "F006" }) = 1

====
